---- MODULE Spec2Model ----
(***************************************************************************)
(* Holmes VM setup: the step runner of SetupOrchestrator (run_steps and    *)
(* run_steps_console), the run thread started by main.on_start, the        *)
(* cancellation flag set by the Stop button, the Logger's step context and *)
(* the event queue of the UI; the step builder                             *)
(* (build_steps_from_selection), the installer registry and the manifest   *)
(* validation of Config.                                                   *)
(***************************************************************************)
EXTENDS Integers, Sequences, FiniteSets

(* ---------------------------- bounds ----------------------------------- *)
MaxSteps == 3
MaxThreads == 2
MaxElapsed == 1

Names == {"Assert Windows/Admin", "Install Wireshark"}
Threads == 1..MaxThreads
None == "None"

\* config/tools.json does not exist
NoFile == [shape |-> "absent"]

VARIABLES
    steps,         \* the step list handed to the runner: sequence of step names
    mode,          \* "gui" (main's on_start), "direct" (run_steps, no ui), "console"
    has_cancel,    \* whether a cancel_event was passed to run_steps
    dlg,           \* selection dialog of the GUI: "open" | "closed" | "none"
    stop_btn,      \* state of the Stop button
    cancel,        \* threading.Event: the cancellation flag
    pc,            \* position of each runner thread
    idx,           \* loop index i of each runner
    success,       \* local variable success of each runner
    raised,        \* whether the action in flight raised
    broke,         \* whether the loop was left through the cancellation break
    current_step,  \* Logger.current_step
    log,           \* the log file: sequence of lines
    queue,         \* ui.queue: every item put on it, in order
    emitted,       \* the items the run thread(s) put on the queue, in order
    last_eta,      \* ui._last_eta: -1 is the dash, else seconds
    invoked,       \* how many times each step's action was called
    outcome,       \* what each step's action did: "none" | "ok" | "false" | "raise"
    cancel_at      \* history: <<pc, idx>> at the moment the flag was set, else <<>>

VARIABLES
    manifest,      \* Config.tools_config: the parsed tools.json
    selection,     \* the selected tool ids handed to the step builder
    installers,    \* InstallerRegistry._installers: id -> installer class
    reg_hist,      \* history: the register calls made, in order
    resolved,      \* what the last get_installer call gave its caller
    bres,          \* what build_steps_from_selection gave its caller
    xres,          \* what running one built step's action did
    vres           \* what Config.validate gave its caller

VARIABLES
    tools_json,    \* config/tools.json: NoFile, or the value of its 'categories'
    entry,         \* the script that was started
    mpc,           \* position of main
    main_ret,      \* what main returned or raised
    exit_code,     \* exit status of the process
    instance,      \* the installer whose install() is called
    ires,          \* what install() did
    handled,       \* the items _process_queue took off the queue, in order
    polling        \* whether a round of _process_queue is under way

VARIABLES
    preselected,   \* the ids the selection dialog shows checked, once shown
    progress,      \* self.progress['value'] of the window
    anim_target,   \* self._anim_target
    anim_job,      \* self._anim_job: the pending animation timers
    pick,          \* one call of _pick_group_for_entry and what it returned
    desk,          \* the Desktop folder that organize_desktop works on
    cons           \* what run_steps_console did

\* the variables of the runner
run_vars == <<steps, mode, has_cancel, dlg, stop_btn, cancel, pc, idx, success,
              raised, broke, current_step, log, queue, emitted, last_eta,
              invoked, outcome, cancel_at>>

\* the variables of the catalog, the registry and the step builder
cat_vars == <<manifest, selection, installers, reg_hist, resolved, bres, xres,
              vres, tools_json, entry, mpc, main_ret, exit_code, instance, ires,
              handled, polling, preselected, progress, anim_target, anim_job,
              pick, desk, cons>>

\* the variables of main
main_vars == <<tools_json, entry, mpc, main_ret, exit_code, preselected>>

\* the variables of one install() call
inst_vars == <<instance, ires>>

\* the variables of the queue consumer of the UI
poll_vars == <<handled, polling>>

\* the variables of the progress animation, of the desktop organizer and of
\* the console runner
aux_vars == <<progress, anim_target, anim_job, pick, desk, cons>>

ext_vars == <<main_vars, inst_vars, poll_vars, aux_vars>>

vars == <<steps, mode, has_cancel, dlg, stop_btn, cancel, pc, idx, success,
          raised, broke, current_step, log, queue, emitted, last_eta,
          invoked, outcome, cancel_at, cat_vars>>

(* ------------------------- pure functions ------------------------------ *)

\* int(x) of a non-negative quotient num/den: Python truncates the float
PyInt(num, den) == num \div den

\* round(x) of a non-negative quotient num/den: Python rounds half to even
PyRound(num, den) ==
    LET q == num \div den
        r == num % den
    IN  IF 2 * r < den THEN q
        ELSE IF 2 * r > den THEN q + 1
        ELSE IF q % 2 = 0 THEN q ELSE q + 1

ProgressPre(i, total) == PyInt((i - 1) * 100, total)

\* the share of the steps that remain
ProgressPost_Remaining(i, total) == PyInt((total - i) * 100, total)

\* the share is rounded instead of truncated
ProgressPost_Rounded(i, total) == PyRound(i * 100, total)

ProgressPost(i, total) == PyInt(i * 100, total)

\* done_fraction = i / max(1, total); eta = elapsed / done_fraction - elapsed;
\* set_eta shows the dash for None or <= 0 and int(seconds) otherwise
SetEta(elapsed, i, total) ==
    LET m == IF total > 1 THEN total ELSE 1
    IN  IF elapsed * (m - i) <= 0 THEN -1
        ELSE PyInt(elapsed * (m - i), i)

\* Logger.log: the context tag of a line
Ctx(cs) == IF cs = None THEN <<>> ELSE <<"[", cs, "]">>

LogLine(level, cs, msg) == [level |-> level, ctx |-> Ctx(cs), msg |-> msg]

Total == Len(steps)

UiPassed == mode = "gui"

\* the flag is never looked at
CancelRequested_Ignored == FALSE

CancelRequested == has_cancel /\ cancel

(* ------------------------------ Init ----------------------------------- *)

StepLists == UNION {[1..n -> Names] : n \in 0..MaxSteps}

\* main was not started, no install() was called, no poll took place
\* the selection dialog has not been shown
NotShown == [shape |-> "none"]

\* nothing of the window, the organizer or the console runner has happened
AuxIdle ==
    /\ progress = 0
    /\ anim_target = 0
    /\ anim_job = 0
    /\ pick = <<>>
    /\ desk = <<>>
    /\ cons = <<>>

ExtIdle ==
    /\ AuxIdle
    /\ preselected = NotShown
    /\ tools_json = NoFile
    /\ entry = "none"
    /\ mpc = "none"
    /\ main_ret = "none"
    /\ exit_code = -1
    /\ instance = <<>>
    /\ ires = <<>>
    /\ handled = <<>>
    /\ polling = FALSE

\* nothing was loaded, registered, built or validated
CatIdle ==
    /\ ExtIdle
    /\ manifest = <<>>
    /\ selection = <<>>
    /\ installers = <<>>
    /\ reg_hist = <<>>
    /\ resolved = <<>>
    /\ bres = <<>>
    /\ xres = <<>>
    /\ vres = <<>>

Init ==
    /\ CatIdle
    /\ steps \in StepLists
    /\ mode \in {"gui", "direct", "console"}
    /\ has_cancel \in BOOLEAN
    /\ (mode = "gui") => has_cancel
    /\ (mode = "console") => ~has_cancel
    /\ dlg = IF mode = "gui" THEN "open" ELSE "none"
    /\ stop_btn = "disabled"
    /\ cancel = FALSE
    /\ pc = [t \in Threads |-> "none"]
    /\ idx = [t \in Threads |-> 0]
    /\ success = [t \in Threads |-> TRUE]
    /\ raised = [t \in Threads |-> FALSE]
    /\ broke = [t \in Threads |-> FALSE]
    /\ current_step = None
    /\ log = <<>>
    /\ queue = <<>>
    /\ emitted = <<>>
    /\ last_eta = -1
    /\ invoked = [k \in 1..Len(steps) |-> 0]
    /\ outcome = [k \in 1..Len(steps) |-> "none"]
    /\ cancel_at = <<>>

(* ------------------------ logger and queue ----------------------------- *)

\* Logger.log appends the line to the file ...
Logged(level, cs, msg) == Append(log, LogLine(level, cs, msg))

\* ... and, when the logger has a GUI, puts ('log', level, line) on its queue
LogEvents(level, cs, msg) ==
    IF mode = "gui"
    THEN <<[kind |-> "log", level |-> level, line |-> LogLine(level, cs, msg)]>>
    ELSE <<>>

StepHdr(i, total, name) ==
    [kind |-> "step_hdr", idx |-> i, total |-> total, name |-> name]

Status(text) == [kind |-> "status", text |-> text]

ProgressTo(v) == [kind |-> "progress_to", value |-> v]

StepResult(i, ok) == [kind |-> "step_result", idx |-> i, success |-> ok]

EnableCloseEvent == [kind |-> "enable_close"]

\* the run thread puts the items es on the queue
RunnerPut(es) ==
    /\ queue' = queue \o es
    /\ emitted' = emitted \o es

(* --------------------------- the UI thread ----------------------------- *)

\* the dialog stays open after Start
DialogAfterStart_StaysOpen == "open"

\* show_selection.start destroys the dialog before it calls on_start
DialogAfterStart == "closed"

FreeThread(t) ==
    /\ pc[t] = "none"
    /\ \A u \in Threads : u < t => pc[u] # "none"

\* main.on_start, called by the dialog's Start button: the steps are built,
\* the Stop button is enabled and the run thread is started
OnStart ==
    /\ mode = "gui"
    /\ dlg = "open"
    /\ \E t \in Threads :
          /\ FreeThread(t)
          /\ pc' = [pc EXCEPT ![t] = "loop"]
          /\ idx' = [idx EXCEPT ![t] = 1]
    /\ dlg' = DialogAfterStart
    /\ stop_btn' = "normal"
    /\ UNCHANGED <<cat_vars, cancel_at, steps, mode, has_cancel, cancel, success, raised, broke,
                   current_step, log, queue, emitted, last_eta, invoked, outcome>>

\* show_selection.cancel: the dialog and the root window are destroyed
DialogCancel ==
    /\ mode = "gui"
    /\ dlg = "open"
    /\ \A t \in Threads : pc[t] = "none"
    /\ dlg' = "closed"
    /\ UNCHANGED <<cat_vars, cancel_at, steps, mode, has_cancel, stop_btn, cancel, pc, idx, success,
                   raised, broke, current_step, log, queue, emitted, last_eta,
                   invoked, outcome>>

\* set_stop_callback._on_click: the Stop button sets the cancellation flag
StopClick ==
    /\ mode = "gui"
    /\ stop_btn = "normal"
    /\ stop_btn' = "disabled"
    /\ cancel' = TRUE
    /\ cancel_at' = <<pc, idx>>
    /\ queue' = Append(queue, Status("Stopping"))
    /\ UNCHANGED <<cat_vars, steps, mode, has_cancel, dlg, pc, idx, success, raised, broke,
                   current_step, log, emitted, last_eta, invoked, outcome>>

(* ------------------- calls without a GUI ------------------------------- *)

\* run_steps(steps, None, cancel_event) or run_steps_console(steps) is called
Call ==
    /\ mode \in {"direct", "console"}
    /\ pc[1] = "none"
    /\ pc' = [pc EXCEPT ![1] = "loop"]
    /\ idx' = [idx EXCEPT ![1] = 1]
    /\ UNCHANGED <<cat_vars, cancel_at, steps, mode, has_cancel, dlg, stop_btn, cancel, success,
                   raised, broke, current_step, log, queue, emitted, last_eta,
                   invoked, outcome>>

\* the owner of the cancel_event sets it from another thread
CancelSet ==
    /\ mode = "direct"
    /\ has_cancel
    /\ ~cancel
    /\ cancel' = TRUE
    /\ cancel_at' = <<pc, idx>>
    /\ UNCHANGED <<cat_vars, steps, mode, has_cancel, dlg, stop_btn, pc, idx, success,
                   raised, broke, current_step, log, queue, emitted, last_eta,
                   invoked, outcome>>

(* --------------------------- the runner -------------------------------- *)

\* the console runner logs the step without calling its action
AfterCheck_SkipsConsole ==
    IF UiPassed THEN "hdr" ELSE IF mode = "console" THEN "outcome" ELSE "ctx"

\* where the loop body continues after the cancellation check
AfterCheck == IF UiPassed THEN "hdr" ELSE "ctx"

\* an exception of the action leaves the loop
AfterAction_LeavesLoop(o) == IF o = "raise" THEN "clear" ELSE "outcome"

\* the except clause catches the exception: the body goes on either way
AfterAction(o) == "outcome"

\* the step result is not put
AfterOutcome_NoResult == IF UiPassed THEN "eta" ELSE "loop"

\* the flag is looked at right after the action, before the result is put
AfterOutcome_ChecksFlag ==
    IF has_cancel /\ cancel THEN "clear"
    ELSE IF UiPassed THEN "result" ELSE "loop"

\* where the loop body continues after the outcome was logged
AfterOutcome == IF UiPassed THEN "result" ELSE "loop"

\* the index does not advance
NextIdx_Stays(i) == i

\* enumerate(steps, start=1) advances the index
NextIdx(i) == i + 1

\* the context the runner gives the logger for a step
StepContext(name) == name

\* the context is left as it was
ClearedContext_Stale(cs) == cs

\* the context the runner leaves behind
ClearedContext(cs) == None

\* for i, (name, action) in enumerate(steps, start=1):
\*     if cancel_event and cancel_event.is_set(): warn; break
LoopHead(t) ==
    /\ pc[t] = "loop"
    /\ IF idx[t] > Total
       THEN /\ pc' = [pc EXCEPT ![t] = "clear"]
            /\ UNCHANGED <<broke, log, queue, emitted>>
       ELSE IF mode # "console" /\ CancelRequested
       THEN /\ log' = Logged("WARN", current_step, "cancelled")
            /\ RunnerPut(LogEvents("WARN", current_step, "cancelled"))
            /\ broke' = [broke EXCEPT ![t] = TRUE]
            /\ pc' = [pc EXCEPT ![t] = "clear"]
       ELSE /\ pc' = [pc EXCEPT ![t] = AfterCheck]
            /\ UNCHANGED <<broke, log, queue, emitted>>
    /\ UNCHANGED <<cat_vars, cancel_at, steps, mode, has_cancel, dlg, stop_btn, cancel, idx, success,
                   raised, current_step, last_eta, invoked, outcome>>

\* ui.enqueue(('step_hdr', i, total, name))
EnqueueHdr(t) ==
    /\ pc[t] = "hdr"
    /\ RunnerPut(<<StepHdr(idx[t], Total, steps[idx[t]])>>)
    /\ pc' = [pc EXCEPT ![t] = "status"]
    /\ UNCHANGED <<cat_vars, cancel_at, steps, mode, has_cancel, dlg, stop_btn, cancel, idx, success,
                   raised, broke, current_step, log, last_eta, invoked, outcome>>

\* ui.enqueue(('status', 'Working'))
EnqueueStatus(t) ==
    /\ pc[t] = "status"
    /\ RunnerPut(<<Status("Working")>>)
    /\ pc' = [pc EXCEPT ![t] = "prog_pre"]
    /\ UNCHANGED <<cat_vars, cancel_at, steps, mode, has_cancel, dlg, stop_btn, cancel, idx, success,
                   raised, broke, current_step, log, last_eta, invoked, outcome>>

\* ui.enqueue(('progress_to', int((i - 1) * 100 / total)))
EnqueueProgressPre(t) ==
    /\ pc[t] = "prog_pre"
    /\ RunnerPut(<<ProgressTo(ProgressPre(idx[t], Total))>>)
    /\ pc' = [pc EXCEPT ![t] = "ctx"]
    /\ UNCHANGED <<cat_vars, cancel_at, steps, mode, has_cancel, dlg, stop_btn, cancel, idx, success,
                   raised, broke, current_step, log, last_eta, invoked, outcome>>

\* self.logger.current_step = name; self.logger.info(name)
\* the line that announces a step: f"{name}" in run_steps and
\* f"[{i}/{total}] {name}" in run_steps_console
HeaderMsg == IF mode = "console" THEN "[i/total] step" ELSE "step"

SetContext(t) ==
    LET cs == StepContext(steps[idx[t]])
    IN  /\ pc[t] = "ctx"
        /\ current_step' = cs
        /\ log' = Logged("INFO", cs, HeaderMsg)
        /\ RunnerPut(LogEvents("INFO", cs, HeaderMsg))
        /\ pc' = [pc EXCEPT ![t] = "call"]
        /\ UNCHANGED <<cat_vars, cancel_at, steps, mode, has_cancel, dlg, stop_btn, cancel, idx,
                       success, raised, broke, last_eta, invoked, outcome>>

\* success = True; try: action() -- the installer starts and logs what it does
ActionBegin(t) ==
    /\ pc[t] = "call"
    /\ success' = [success EXCEPT ![t] = TRUE]
    /\ invoked' = [invoked EXCEPT ![idx[t]] = @ + 1]
    /\ log' = Logged("INFO", current_step, "installing")
    /\ RunnerPut(LogEvents("INFO", current_step, "installing"))
    /\ pc' = [pc EXCEPT ![t] = "inflight"]
    /\ UNCHANGED <<cat_vars, cancel_at, steps, mode, has_cancel, dlg, stop_btn, cancel, idx, raised,
                   broke, current_step, last_eta, outcome>>

\* the action ends: install() returned True ("ok"), install() logged a
\* warning and returned False ("false"), or the action raised ("raise")
ActionEnd(t) ==
    /\ pc[t] = "inflight"
    /\ \E o \in {"ok", "false", "raise"} :
          /\ outcome' = [outcome EXCEPT ![idx[t]] = o]
          /\ raised' = [raised EXCEPT ![t] = (o = "raise")]
          /\ pc' = [pc EXCEPT ![t] = AfterAction(o)]
          /\ IF o = "ok"
             THEN /\ log' = Logged("SUCCESS", current_step, "installed")
                  /\ RunnerPut(LogEvents("SUCCESS", current_step, "installed"))
             ELSE IF o = "false"
             THEN /\ log' = Logged("WARN", current_step, "install returned")
                  /\ RunnerPut(LogEvents("WARN", current_step, "install returned"))
             ELSE UNCHANGED <<log, queue, emitted>>
    /\ UNCHANGED <<cat_vars, cancel_at, steps, mode, has_cancel, dlg, stop_btn, cancel, idx, success,
                   broke, current_step, last_eta, invoked>>

\* logger.success(f"{name} completed.") after the call, or
\* except Exception: success = False; logger.error(f"{name} failed: {e}")
LogOutcome(t) ==
    /\ pc[t] = "outcome"
    /\ IF raised[t]
       THEN /\ success' = [success EXCEPT ![t] = FALSE]
            /\ log' = Logged("ERROR", current_step, "failed")
            /\ RunnerPut(LogEvents("ERROR", current_step, "failed"))
       ELSE /\ success' = success
            /\ log' = Logged("SUCCESS", current_step, "completed")
            /\ RunnerPut(LogEvents("SUCCESS", current_step, "completed"))
    /\ raised' = [raised EXCEPT ![t] = FALSE]
    /\ pc' = [pc EXCEPT ![t] = AfterOutcome]
    /\ idx' = IF AfterOutcome = "loop"
              THEN [idx EXCEPT ![t] = NextIdx(@)] ELSE idx
    /\ UNCHANGED <<cat_vars, cancel_at, steps, mode, has_cancel, dlg, stop_btn, cancel, broke,
                   current_step, last_eta, invoked, outcome>>

\* ui.enqueue(('step_result', i, success))
EnqueueResult(t) ==
    /\ pc[t] = "result"
    /\ RunnerPut(<<StepResult(idx[t], success[t])>>)
    /\ pc' = [pc EXCEPT ![t] = "eta"]
    /\ UNCHANGED <<cat_vars, cancel_at, steps, mode, has_cancel, dlg, stop_btn, cancel, idx, success,
                   raised, broke, current_step, log, last_eta, invoked, outcome>>

\* elapsed = time.time() - start; eta = ...; ui.set_eta(eta)
Eta(t) ==
    /\ pc[t] = "eta"
    /\ \E elapsed \in 0..MaxElapsed :
          last_eta' = SetEta(elapsed, idx[t], Total)
    /\ pc' = [pc EXCEPT ![t] = "prog_post"]
    /\ UNCHANGED <<cat_vars, cancel_at, steps, mode, has_cancel, dlg, stop_btn, cancel, idx, success,
                   raised, broke, current_step, log, queue, emitted, invoked,
                   outcome>>

\* ui.enqueue(('progress_to', int(i * 100 / total))), then the next iteration
EnqueueProgressPost(t) ==
    /\ pc[t] = "prog_post"
    /\ RunnerPut(<<ProgressTo(ProgressPost(idx[t], Total))>>)
    /\ idx' = [idx EXCEPT ![t] = NextIdx(@)]
    /\ pc' = [pc EXCEPT ![t] = "loop"]
    /\ UNCHANGED <<cat_vars, cancel_at, steps, mode, has_cancel, dlg, stop_btn, cancel, success,
                   raised, broke, current_step, log, last_eta, invoked, outcome>>

\* self.logger.current_step = None; the runner returns
\* the close signal is put only after a run that was not cancelled
AfterClear_NotOnCancel(t) == IF mode = "gui" /\ ~broke[t] THEN "finally" ELSE "done"

\* run_steps returns: in a GUI run into the finally clause of _runner
AfterClear(t) == IF mode = "gui" THEN "finally" ELSE "done"

ClearContext(t) ==
    /\ pc[t] = "clear"
    /\ current_step' = ClearedContext(current_step)
    /\ pc' = [pc EXCEPT ![t] = AfterClear(t)]
    /\ UNCHANGED <<cat_vars, cancel_at, steps, mode, has_cancel, dlg, stop_btn, cancel, idx, success,
                   raised, broke, log, queue, emitted, last_eta, invoked, outcome>>

\* _runner: finally: ui.enqueue(('enable_close', None))
EnableClose(t) ==
    /\ pc[t] = "finally"
    /\ RunnerPut(<<EnableCloseEvent>>)
    /\ pc' = [pc EXCEPT ![t] = "done"]
    /\ UNCHANGED <<cat_vars, cancel_at, steps, mode, has_cancel, dlg, stop_btn, cancel, idx, success,
                   raised, broke, current_step, log, last_eta, invoked, outcome>>

Runner(t) ==
    \/ LoopHead(t)
    \/ EnqueueHdr(t)
    \/ EnqueueStatus(t)
    \/ EnqueueProgressPre(t)
    \/ SetContext(t)
    \/ ActionBegin(t)
    \/ ActionEnd(t)
    \/ LogOutcome(t)
    \/ EnqueueResult(t)
    \/ Eta(t)
    \/ EnqueueProgressPost(t)
    \/ ClearContext(t)
    \/ EnableClose(t)

Next ==
    \/ OnStart
    \/ DialogCancel
    \/ StopClick
    \/ Call
    \/ CancelSet
    \/ \E t \in Threads : Runner(t)

Spec == Init /\ [][Next]_vars

\* a started runner thread keeps being scheduled, and an action that was
\* called returns or raises in finite time
FairSpec == Spec /\ \A t \in Threads : WF_vars(Runner(t))

(* --------------------- the installer registry ------------------------- *)

MaxRegs == 3

\* the runner is not in use
RunIdle ==
    /\ steps = <<>>
    /\ mode = "console"
    /\ has_cancel = FALSE
    /\ dlg = "none"
    /\ stop_btn = "disabled"
    /\ cancel = FALSE
    /\ pc = [t \in Threads |-> "none"]
    /\ idx = [t \in Threads |-> 0]
    /\ success = [t \in Threads |-> TRUE]
    /\ raised = [t \in Threads |-> FALSE]
    /\ broke = [t \in Threads |-> FALSE]
    /\ current_step = None
    /\ log = <<>>
    /\ queue = <<>>
    /\ emitted = <<>>
    /\ last_eta = -1
    /\ invoked = <<>>
    /\ outcome = <<>>
    /\ cancel_at = <<>>

\* an installer class: its get_name() and the number of constructor
\* parameters it requires besides (config, logger, args)
InstallerClass(cls, title, extra) ==
    [cls |-> cls, title |-> title, extra |-> extra]

NetworkCheckInstaller ==
    InstallerClass("NetworkCheckInstaller", <<"Network connectivity">>, 0)

OrganizeDesktopInstaller ==
    InstallerClass("OrganizeDesktopInstaller", <<"Organize Desktop shortcuts">>, 0)

PinTaskbarInstaller ==
    InstallerClass("PinTaskbarInstaller", <<"Pin ">>, 2)

CreateShortcutInstaller ==
    InstallerClass("CreateShortcutInstaller", <<"Create shortcut for ">>, 1)

\* the ids and classes the register calls are drawn from
RegIds == {"network_check", "organize_desktop", "pin_taskbar"}

RegClasses == {NetworkCheckInstaller, OrganizeDesktopInstaller, PinTaskbarInstaller}

\* get_installer found no class for the id: it returns None
NotFound == [kind |-> "none"]

\* installer_class(config, logger, args): an instance, or the TypeError of a
\* constructor that requires more arguments
Construct(c) ==
    IF c.extra > 0
    THEN [kind |-> "TypeError", cls |-> c.cls]
    ELSE [kind |-> "installer", cls |-> c.cls, title |-> c.title]

\* the first registration of an id is kept
DictSet_KeepsFirst(d, k, v) ==
    [x \in DOMAIN d \cup {k} |-> IF x \in DOMAIN d THEN d[x] ELSE v]

\* d[k] = v on a dict
DictSet(d, k, v) ==
    [x \in DOMAIN d \cup {k} |-> IF x = k THEN v ELSE d[x]]

\* InstallerRegistry.get_installer
GetInstaller(d, id) ==
    IF id \in DOMAIN d THEN Construct(d[id]) ELSE NotFound

\* InstallerRegistry.__init__: the registry is empty
RegInit ==
    /\ RunIdle
    /\ ExtIdle
    /\ manifest = <<>>
    /\ selection = <<>>
    /\ installers = <<>>
    /\ reg_hist = <<>>
    /\ resolved = <<>>
    /\ bres = <<>>
    /\ xres = <<>>
    /\ vres = <<>>

\* InstallerRegistry.register, called by the register_installer decorator
Register ==
    /\ Len(reg_hist) < MaxRegs
    /\ \E id \in RegIds, c \in RegClasses :
          /\ installers' = DictSet(installers, id, c)
          /\ reg_hist' = Append(reg_hist, <<id, c>>)
    /\ UNCHANGED <<run_vars, manifest, selection, resolved, bres, xres, vres,
                   ext_vars>>

\* a caller resolves an id
Resolve ==
    /\ \E id \in RegIds :
          resolved' = [id |-> id, at |-> Len(reg_hist),
                       result |-> GetInstaller(installers, id)]
    /\ UNCHANGED <<run_vars, manifest, selection, installers, reg_hist, bres,
                   xres, vres, ext_vars>>

RegNext ==
    \/ Register
    \/ Resolve

RegSpec == RegInit /\ [][RegNext]_vars

(* ------------------- the catalog and the step builder ------------------ *)

MaxTools == 2
MaxSel == 2

\* a dict of the manifest; a key that is absent has the value None (False for
\* default), and post_install is the list of the types of its actions
Item(id, name, itype, package, script, function, installer, group, post) ==
    [shape |-> "dict", id |-> id, name |-> name, installer_type |-> itype,
     package_name |-> package, script_path |-> script,
     function_name |-> function, installer |-> installer,
     desktop_group |-> group, post_install |-> post, default |-> None,
     version |-> None, install_args |-> None, suppress_default_args |-> None]

wireshark ==
    Item("wireshark", "Wireshark", "chocolatey", "wireshark", None, None, None,
         "Network", <<"pin_taskbar">>)

dotnet ==
    Item("dotnet-runtime", ".NET Desktop Runtime", "chocolatey",
         "dotnet-desktopruntime", None, None, None, "Runtimes", <<>>)

eztools ==
    Item("eztools", "EZ Tools", "powershell", None, "modules/EZTools.ps1",
         "Install-EZTools", None, "Bundles", <<>>)

sysmon ==
    Item("sysmon", "Sysmon", "powershell", None, "modules/Sysmon.ps1",
         "Install-Sysmon", None, None, <<>>)

netcheck ==
    Item("netcheck", "Network check", "function", None, None, None,
         "network_check", None, <<>>)

taskbar ==
    Item("taskbar", "Taskbar pins", "function", None, None, None,
         "pin_taskbar", None, <<>>)

ghost ==
    Item("ghost", "Ghost", "function", None, None, None, "no_such_installer",
         None, <<>>)

\* the tool specs the manifests are made of, in file order
Pool == <<wireshark, dotnet, eztools, sysmon, netcheck, taskbar, ghost>>

\* the ids a selection is made of: those of the pool and one of no tool
SelIds == {Pool[i].id : i \in 1..Len(Pool)} \cup {"not-in-catalog"}

\* a category of the manifest
Category(id, name, items) ==
    [shape |-> "dict", id |-> id, name |-> name, items_shape |-> "list",
     items |-> items]

\* tools.json with one category that holds the tools of the pool picked by keep
ManifestOf(keep) ==
    <<Category("tools", "Tools", SelectSeq(Pool, LAMBDA it : it.id \in keep))>>

Manifests ==
    {ManifestOf(keep) : keep \in {k \in SUBSET (SelIds \ {"not-in-catalog"}) :
                                       Cardinality(k) <= MaxTools}}

Selections ==
    UNION {[1..n -> SelIds] : n \in 0..MaxSel}

\* the items of all categories, in file order
RECURSIVE AllItems(_)
AllItems(cats) ==
    IF cats = <<>> THEN <<>> ELSE Head(cats).items \o AllItems(Tail(cats))

NoTool == [shape |-> "None"]

\* Config.get_tool_by_id: the first item with the id, or None
GetToolById(m, id) ==
    LET hits == SelectSeq(AllItems(m), LAMBDA it : it.id = id)
    IN  IF hits = <<>> THEN NoTool ELSE Head(hits)

\* the truth value python gives an optional string
Truthy(v) == v # None /\ v # ""

\* the comparison keeps the case
Lower_KeepsCase(g) == g

\* str.lower on the desktop groups
Lower(g) ==
    CASE g = "Runtimes" -> "runtimes"
      [] g = "Bundles" -> "bundles"
      [] g = "Network" -> "network"
      [] OTHER -> g

\* the registry after the installer modules were imported
RegisteredAtImport ==
    [id \in {"prepare_desktop_groups", "network_check", "ensure_choco",
             "upgrade_pip", "install_wallpaper", "set_appearance", "pin_taskbar",
             "organize_desktop", "create_shortcut", "chocolatey", "powershell"} |->
        CASE id = "prepare_desktop_groups" ->
               InstallerClass("PrepareDesktopGroupsInstaller",
                              <<"Prepare Desktop category folders">>, 0)
          [] id = "network_check" -> NetworkCheckInstaller
          [] id = "ensure_choco" ->
               InstallerClass("ChocolateySetupInstaller", <<"Ensure Chocolatey">>, 0)
          [] id = "upgrade_pip" ->
               InstallerClass("PipUpgradeInstaller",
                              <<"Upgrade pip/setuptools/wheel">>, 0)
          [] id = "install_wallpaper" ->
               InstallerClass("WallpaperInstaller", <<"Copy and apply wallpaper">>, 0)
          [] id = "set_appearance" ->
               InstallerClass("AppearanceInstaller",
                              <<"Apply Windows appearance (Dark Mode)">>, 0)
          [] id = "pin_taskbar" -> PinTaskbarInstaller
          [] id = "organize_desktop" -> OrganizeDesktopInstaller
          [] id = "create_shortcut" -> CreateShortcutInstaller
          [] id = "chocolatey" ->
               InstallerClass("ChocolateyInstaller", <<"Install ">>, 2)
          [] id = "powershell" ->
               InstallerClass("PowerShellInstaller", <<"Install ">>, 3)]

\* one (name, action) pair of the step list: kind tells which closure the
\* action is, tool the selected id it was built for, shortcut whether the
\* closure holds a CreateShortcutInstaller, ps_args the arguments given to
\* the PowerShellInstaller
Step(name, kind, tool, shortcut, ps_args) ==
    [name |-> name, kind |-> kind, tool |-> tool, shortcut |-> shortcut,
     ps_args |-> ps_args]

\* the preparation step is not put on the list
FixedSteps_NoPrepare ==
    <<Step(<<"Assert Windows/Admin">>, "assert", None, FALSE, <<>>)>>

\* the two steps every list starts with
FixedSteps ==
    <<Step(<<"Assert Windows/Admin">>, "assert", None, FALSE, <<>>),
      Step(<<"Prepare Desktop category folders">>, "function", None, FALSE, <<>>)>>

\* the step is named after the package
InstallName_Package(tool) == <<"Install ", tool.package_name>>

\* ChocolateyInstaller.get_name, PowerShellInstaller.get_name
InstallName(tool) == <<"Install ", tool.name>>

\* desktop_group and desktop_group.lower() != 'runtimes'
ShortcutWanted(tool) ==
    /\ Truthy(tool.desktop_group)
    /\ Lower(tool.desktop_group) # "runtimes"

\* the ps_args the powershell branch puts together; args.log_dir is set
PsArgs(tool) ==
    LET logdir == IF tool.id = "eztools" THEN <<"-LogDir", "log_dir">> ELSE <<>>
        category == IF Lower(tool.desktop_group) = "bundles"
                    THEN <<tool.desktop_group, "\\", tool.name>>
                    ELSE <<tool.desktop_group>>
    IN  IF Truthy(tool.desktop_group)
        THEN logdir \o <<"-ShortcutCategory">> \o category
        ELSE logdir

\* the id is skipped without a word
Warned_Silent(acc, msg) == acc

\* logger.warn(msg), then on to the next id
Warned(acc, msg) == [acc EXCEPT !.warnings = Append(@, msg)]

\* steps.append
Appended(acc, step) == [acc EXCEPT !.steps = Append(@, step)]

\* the body of the loop over selected_ids
BuildOne(m, reg, acc, tool_id) ==
    LET tool == GetToolById(m, tool_id)
    IN  IF tool.shape = "None"
        THEN Warned(acc, <<"Tool not found in config: ", tool_id>>)
        ELSE CASE tool.installer_type = "function" ->
                    LET inst == GetInstaller(reg, tool.installer)
                    IN  CASE inst.kind = "TypeError" -> [acc EXCEPT !.raised = TRUE]
                          [] inst.kind = "installer" ->
                               Appended(acc, Step(inst.title, "function", tool_id,
                                                  FALSE, <<>>))
                          [] OTHER ->
                               Warned(acc, <<"Installer not found: ", tool.installer>>)
               [] tool.installer_type = "chocolatey" ->
                    Appended(acc, Step(InstallName(tool), "bundle", tool_id,
                                       ShortcutWanted(tool), <<>>))
               [] tool.installer_type = "powershell" ->
                    Appended(acc, Step(InstallName(tool), "bundle", tool_id,
                                       ShortcutWanted(tool), PsArgs(tool)))
               [] OTHER -> acc

\* the loop over selected_ids, left by an exception
RECURSIVE BuildLoop(_, _, _, _)
BuildLoop(m, reg, sel, acc) ==
    IF sel = <<>> \/ acc.raised
    THEN acc
    ELSE BuildLoop(m, reg, Tail(sel), BuildOne(m, reg, acc, Head(sel)))

\* SetupOrchestrator.build_steps_from_selection: what the caller gets (the
\* list, or an exception and no list) and the warnings logged
BuildStepsFromSelection(m, reg, sel) ==
    LET r == BuildLoop(m, reg, sel,
                       [raised |-> FALSE, steps |-> FixedSteps, warnings |-> <<>>])
    IN  [raised |-> r.raised,
         steps |-> IF r.raised THEN <<>> ELSE r.steps,
         warnings |-> r.warnings]

\* what install() of the primary installer can do
InstallOutcomes == {"true", "false", "raise"}

\* CreateShortcutInstaller.install: what it returns or raises; Config has no
\* get_shortcut_meta
ShortcutInstall(m, tool_id, mkdir) ==
    LET tool == GetToolById(m, tool_id)
    IN  IF tool.shape = "None" THEN "false"
        ELSE IF Truthy(tool.desktop_group) /\ Lower(tool.desktop_group) = "runtimes"
        THEN "true"
        ELSE IF ~Truthy(tool.desktop_group) THEN "true"
        ELSE IF mkdir = "OSError" THEN "OSError"
        ELSE "AttributeError"

\* calling the action of a step: primary is what install() of its installer
\* does, mkdir what creating the shortcut directory does
RunAction(m, step, primary, mkdir) ==
    IF step.kind = "bundle" /\ primary # "raise" /\ step.shortcut
    THEN [name |-> step.name, tool |-> step.tool, primary |-> primary,
          shortcut |-> ShortcutInstall(m, step.tool, mkdir), raised |-> FALSE]
    ELSE [name |-> step.name, tool |-> step.tool, primary |-> primary,
          shortcut |-> "not attempted", raised |-> primary = "raise"]

\* get_config() and the import of the installer modules
BuildInit ==
    /\ RunIdle
    /\ ExtIdle
    /\ manifest \in Manifests
    /\ selection \in Selections
    /\ installers = RegisteredAtImport
    /\ reg_hist = <<>>
    /\ resolved = <<>>
    /\ bres = <<>>
    /\ xres = <<>>
    /\ vres = <<>>

\* on_start, or main in console mode, builds the steps
Build ==
    /\ bres = <<>>
    /\ bres' = BuildStepsFromSelection(manifest, installers, selection)
    /\ UNCHANGED <<run_vars, manifest, selection, installers, reg_hist, resolved,
                   xres, vres, ext_vars>>

\* a runner calls the action of one of the steps built
Execute ==
    /\ bres # <<>>
    /\ \E i \in 1..Len(bres.steps), primary \in InstallOutcomes,
          mkdir \in {"ok", "OSError"} :
          xres' = RunAction(manifest, bres.steps[i], primary, mkdir)
    /\ UNCHANGED <<run_vars, manifest, selection, installers, reg_hist, resolved,
                   bres, vres, ext_vars>>

BuildNext ==
    \/ Build
    \/ Execute

BuildSpec == BuildInit /\ [][BuildNext]_vars

(* ------------------------- Config.validate ---------------------------- *)

MaxCats == 2
MaxItems == 2

\* a JSON value that is neither an object nor a list
JsonStr == [shape |-> "str"]

\* a JSON list
JsonList(elems) == [shape |-> "list", elems |-> elems]

\* items with a required field missing
nopkg == [wireshark EXCEPT !.package_name = None]

nofn == [sysmon EXCEPT !.function_name = None]

noinst == [netcheck EXCEPT !.installer = None]

noname == [dotnet EXCEPT !.name = None]

\* the entries an items list is made of
ValItems == {wireshark, nopkg, nofn, noinst, noname, JsonStr}

ValItemLists == UNION {[1..n -> ValItems] : n \in 0..MaxItems}

\* the entries a categories list is made of: objects with and without
\* 'name', with a list of items, with no 'items' and with 'items' that is
\* not a list, and an entry that is not an object
ValCategories ==
    LET named == {"Tools", None}
    IN  {Category("tools", n, its) : n \in named, its \in ValItemLists}
        \cup {[Category("tools", n, <<>>) EXCEPT !.items_shape = s] :
                 n \in named, s \in {"absent", "str"}}
        \cup {JsonStr}

\* the values of 'categories' in a parsed tools.json
ValManifests ==
    {JsonList(cs) : cs \in UNION {[1..n -> ValCategories] : n \in 0..MaxCats}}
    \cup {JsonStr}

\* ok = False
Failed(acc) == [acc EXCEPT !.ok = FALSE]

\* logger.warn / logger.error
Diag(acc, level, msg) == [acc EXCEPT !.diags = Append(@, <<level, msg>>)]

\* the body of the loop over the items of a category
ValidateItem(acc, item) ==
    IF item.shape # "dict"
    THEN [acc EXCEPT !.raised = TRUE]
    ELSE IF ~Truthy(item.id) \/ ~Truthy(item.name) \/ ~Truthy(item.installer_type)
    THEN Diag(Failed(acc), "error", "Item missing required fields")
    ELSE LET a1 == IF /\ item.installer_type = "chocolatey"
                      /\ ~Truthy(item.package_name)
                   THEN Diag(Failed(acc), "error", "missing 'package_name'")
                   ELSE acc
             a2 == IF /\ item.installer_type = "powershell"
                      /\ (~Truthy(item.script_path) \/ ~Truthy(item.function_name))
                   THEN Diag(Failed(a1), "error",
                             "missing 'script_path' or 'function_name'")
                   ELSE a1
         IN  IF item.installer_type = "function" /\ ~Truthy(item.installer)
             THEN Diag(Failed(a2), "error", "missing 'installer'")
             ELSE a2

RECURSIVE ValidateItems(_, _)
ValidateItems(acc, items) ==
    IF items = <<>> \/ acc.raised
    THEN acc
    ELSE ValidateItems(ValidateItem(acc, Head(items)), Tail(items))

\* the body of the loop over the categories; on a string, 'name' not in cat
\* is a substring test and cat.get raises AttributeError
ValidateCategory(acc, cat) ==
    IF cat.shape # "dict"
    THEN [Diag(Failed(acc), "warn", "Category is missing 'id' or 'name'")
             EXCEPT !.raised = TRUE]
    ELSE LET a1 == IF cat.id = None \/ cat.name = None
                   THEN Diag(Failed(acc), "warn",
                             "Category is missing 'id' or 'name'")
                   ELSE acc
         IN  IF cat.items_shape \notin {"list", "absent"}
             THEN Diag(Failed(a1), "error", "Category has invalid 'items'")
             ELSE ValidateItems(a1, cat.items)

RECURSIVE ValidateCategories(_, _)
ValidateCategories(acc, cats) ==
    IF cats = <<>> \/ acc.raised
    THEN acc
    ELSE ValidateCategories(ValidateCategory(acc, Head(cats)), Tail(cats))

\* Config.validate: whether it raised, the verdict it returned if it did
\* not, and the diagnostics it logged
Validate(cats) ==
    IF cats.shape # "list"
    THEN [raised |-> FALSE, ok |-> FALSE,
          diags |-> <<<<"error", "categories must be a list">>>>]
    ELSE ValidateCategories([raised |-> FALSE, ok |-> TRUE, diags |-> <<>>],
                            cats.elems)

\* get_config() has parsed tools.json
ValInit ==
    /\ RunIdle
    /\ ExtIdle
    /\ manifest \in ValManifests
    /\ selection = <<>>
    /\ installers = RegisteredAtImport
    /\ reg_hist = <<>>
    /\ resolved = <<>>
    /\ bres = <<>>
    /\ xres = <<>>
    /\ vres = <<>>

\* main validates the configuration
ValidateConfig ==
    /\ vres = <<>>
    /\ vres' = Validate(manifest)
    /\ UNCHANGED <<run_vars, manifest, selection, installers, reg_hist, resolved,
                   bres, xres, ext_vars>>

ValNext == ValidateConfig

ValSpec == ValInit /\ [][ValNext]_vars

(* ------------------------------- main --------------------------------- *)

\* the scripts that start the setup
Entries == {"holmes_vm/setup.py", "setup.py"}

\* the tools of the files main is started with: preselected ones, one that
\* is not, and one that validate rejects
MainItems ==
    {[wireshark EXCEPT !.default = "true"], [netcheck EXCEPT !.default = "true"],
     [taskbar EXCEPT !.default = "true"], sysmon, [nopkg EXCEPT !.default = "true"],
     [eztools EXCEPT !.default = "false"]}

MainFiles ==
    {JsonList(<<Category("tools", "Tools", its)>>) :
        its \in UNION {[1..n -> MainItems] : n \in 0..MaxItems}}
    \cup {NoFile}

\* a catalog with one preselected tool
MissingConfig_Sample ==
    JsonList(<<Category("tools", "Tools", <<[wireshark EXCEPT !.default = "true"]>>)>>)

\* what _load_tools_config returns when the file does not exist
MissingConfig == JsonList(<<>>)

\* Config._load_tools_config
LoadToolsConfig(file) ==
    IF file.shape = "absent" THEN MissingConfig ELSE file

\* Config.get_default_tool_ids
\* item.get('default', dflt) as a condition
ItemDefault(it, dflt) == (IF it.default = None THEN dflt ELSE it.default) = "true"

DefaultToolIds(cats) ==
    LET its == SelectSeq(AllItems(cats), LAMBDA it : ItemDefault(it, "false"))
    IN  [i \in 1..Len(its) |-> its[i].id]

\* show_selection was called without preselected_ids
NoIds == [given |-> FALSE, ids |-> <<>>]

\* the value of default_selected that show_selection computes for one item
DefaultSelected(it, pre) ==
    \/ ~pre.given /\ ItemDefault(it, "true")
    \/ /\ pre.given
       /\ pre.ids # <<>>
       /\ \E k \in 1..Len(pre.ids) : pre.ids[k] = it.id

\* the ids whose check box show_selection creates checked, in dialog order
Preselected(cats, pre) ==
    LET its == SelectSeq(AllItems(cats), LAMBDA it : DefaultSelected(it, pre))
    IN  [i \in 1..Len(its) |-> its[i].id]

\* the exit status of a script that ends with the statement main()
ExitStatus(ret) == 0

\* what MainSpec leaves alone
MainFrame == <<run_vars, installers, reg_hist, resolved, inst_vars, poll_vars, aux_vars>>

\* the script was started
MainInit ==
    /\ RunIdle
    /\ AuxIdle
    /\ preselected = NotShown
    /\ tools_json \in MainFiles
    /\ entry \in Entries
    /\ mpc = "start"
    /\ main_ret = "none"
    /\ exit_code = -1
    /\ instance = <<>>
    /\ ires = <<>>
    /\ handled = <<>>
    /\ polling = FALSE
    /\ manifest = <<>>
    /\ selection = <<>>
    /\ installers = RegisteredAtImport
    /\ reg_hist = <<>>
    /\ resolved = <<>>
    /\ bres = <<>>
    /\ xres = <<>>
    /\ vres = <<>>

\* config = get_config(); only holmes_vm/setup.py validates it
GetConfig ==
    /\ mpc = "start"
    /\ manifest' = LoadToolsConfig(tools_json)
    /\ mpc' = IF entry = "holmes_vm/setup.py" THEN "validate" ELSE "select"
    /\ UNCHANGED <<MainFrame, preselected, tools_json, entry, main_ret, exit_code, selection,
                   bres, xres, vres>>

\* if not config.validate(logger): ... return 2
MainValidate ==
    /\ mpc = "validate"
    /\ vres' = Validate(manifest)
    /\ mpc' = IF vres'.raised THEN "raised"
              ELSE IF vres'.ok THEN "select" ELSE "returned"
    /\ main_ret' = IF vres'.raised THEN "exception"
                   ELSE IF vres'.ok THEN main_ret ELSE "2"
    /\ UNCHANGED <<MainFrame, preselected, tools_json, entry, exit_code, manifest, selection,
                   bres, xres>>

\* console mode: selected_ids = config.get_default_tool_ids()
MainSelect ==
    /\ mpc = "select"
    /\ selection' = DefaultToolIds(manifest.elems)
    /\ mpc' = "build"
    /\ UNCHANGED <<MainFrame, preselected, tools_json, entry, main_ret, exit_code, manifest,
                   bres, xres, vres>>

\* steps = orchestrator.build_steps_from_selection(selected_ids)
MainBuild ==
    /\ mpc = "build"
    /\ bres' = BuildStepsFromSelection(manifest.elems, installers, selection)
    /\ mpc' = IF bres'.raised THEN "raised" ELSE "run"
    /\ main_ret' = IF bres'.raised THEN "exception" ELSE main_ret
    /\ UNCHANGED <<MainFrame, preselected, tools_json, entry, exit_code, manifest, selection,
                   xres, vres>>

\* orchestrator.run_steps_console(steps), in which any number of steps fail,
\* then logger.success('Setup finished.') and the end of main
MainRun ==
    /\ mpc = "run"
    /\ \E failed \in 0..Len(bres.steps) : xres' = [failed |-> failed]
    /\ mpc' = "returned"
    /\ main_ret' = "None"
    /\ UNCHANGED <<MainFrame, preselected, tools_json, entry, exit_code, manifest, selection,
                   bres, vres>>

\* the interpreter ends: status 1 after an uncaught exception
ProcessExit ==
    /\ mpc \in {"returned", "raised"}
    /\ exit_code' = IF mpc = "raised" THEN 1 ELSE ExitStatus(main_ret)
    /\ mpc' = "exited"
    /\ UNCHANGED <<MainFrame, preselected, tools_json, entry, main_ret, manifest, selection,
                   bres, xres, vres>>

\* GUI mode: ui.show_selection(registry, on_start) builds the dialog
ShowSelection ==
    /\ mpc = "select"
    /\ preselected' = [shape |-> "list", ids |-> Preselected(manifest.elems, NoIds)]
    /\ mpc' = "gui"
    /\ UNCHANGED <<MainFrame, tools_json, entry, main_ret, exit_code, manifest,
                   selection, bres, xres, vres>>

\* ui.run() returns when the window is closed; main logs 'Setup finished.'
UiRun ==
    /\ mpc = "gui"
    /\ mpc' = "returned"
    /\ main_ret' = "None"
    /\ UNCHANGED <<MainFrame, preselected, tools_json, entry, exit_code, manifest,
                   selection, bres, xres, vres>>

MainNext ==
    \/ GetConfig
    \/ MainValidate
    \/ MainSelect
    \/ ShowSelection
    \/ UiRun
    \/ MainBuild
    \/ MainRun
    \/ ProcessExit

MainSpec == MainInit /\ [][MainNext]_vars

(* ---------------------------- install() ------------------------------- *)

\* the run options: args.what_if and args.force_reinstall
Options == [what_if : BOOLEAN, force : BOOLEAN]

\* dict.get(key) on a dict of parameters
DictGet(d, k) == IF k \in DOMAIN d THEN d[k] ELSE None

\* Config.get_choco_params for a chocolatey tool
ChocoParams(tool) ==
    [name |-> tool.package_name, tool_name |-> tool.name, version |-> tool.version]

\* Config.get_powershell_params for a powershell tool
PowerShellParams(tool) ==
    [script_path |-> tool.script_path, function_name |-> tool.function_name,
     tool_name |-> tool.name, args |-> ""]

\* an installer object: the fields its constructor sets, and the run options
Installer(kind, tool, tool_name, package, version, install_args, suppress, script, function, ps_args, opts) ==
    [kind |-> kind, tool |-> tool, tool_name |-> tool_name,
     package_name |-> package, version |-> version,
     install_args |-> install_args, suppress_default_args |-> suppress,
     script_path |-> script, function_name |-> function, ps_args |-> ps_args,
     what_if |-> opts.what_if, force |-> opts.force]

\* the ChocolateyInstaller the step builder makes for a chocolatey tool
ChocolateyInstallerOf(tool, opts) ==
    LET choco == ChocoParams(tool)
    IN  Installer("chocolatey", tool.id, DictGet(choco, "tool_name"),
                  DictGet(choco, "name"), DictGet(choco, "version"),
                  DictGet(choco, "install_args"),
                  DictGet(choco, "suppress_default_args"), None, None, <<>>, opts)

\* the PowerShellInstaller the step builder makes for a powershell tool
PowerShellInstallerOf(tool, opts) ==
    LET ps == PowerShellParams(tool)
    IN  Installer("powershell", tool.id, DictGet(ps, "tool_name"), None, None,
                  None, None, DictGet(ps, "script_path"),
                  DictGet(ps, "function_name"), PsArgs(tool), opts)

\* the installer the step builder makes for a tool
InstallerOf(tool, opts) ==
    IF tool.installer_type = "chocolatey"
    THEN ChocolateyInstallerOf(tool, opts)
    ELSE PowerShellInstallerOf(tool, opts)

\* an installer a registered class gives when called with (config, logger, args)
FunctionInstaller(id, opts) ==
    Installer(id, None, None, None, None, None, None, None, None, <<>>, opts)

\* the tools install() is followed for: chocolatey tools with and without a
\* version and the two install options, and powershell tools
InstallTools ==
    {wireshark,
     [wireshark EXCEPT !.version = "4.2.0"],
     [wireshark EXCEPT !.install_args = "/S"],
     [wireshark EXCEPT !.suppress_default_args = "true"],
     [wireshark EXCEPT !.install_args = "/S", !.suppress_default_args = "true"],
     eztools, sysmon}

\* ChocolateyInstaller objects made by calling the constructor directly
DirectInstallers ==
    {Installer("chocolatey", None, "Wireshark", "wireshark", None, a, f, None, None, <<>>, o) :
        a \in {None, "/S"}, f \in {None, "true"}, o \in Options}

\* the registered ids whose class takes (config, logger, args)
FunctionIds ==
    {id \in DOMAIN RegisteredAtImport : RegisteredAtImport[id].extra = 0}

\* what the outside world does during one install(): the collaborator
\* process exits with 0, exits with 1, or cannot be launched; whether the
\* script file, the wallpaper asset and the Desktop folder exist, and whether
\* the Desktop holds a shortcut that matches a group
Envs ==
    [collab : {"exit0", "exit1", "OSError"}, script_exists : BOOLEAN,
     asset_exists : BOOLEAN, desktop : BOOLEAN, shortcut : BOOLEAN]

\* res.returncode
ReturnCode(env) == IF env.collab = "exit0" THEN 0 ELSE 1

\* an integer as an f-string renders it
Str(n) == CASE n = 0 -> "0" [] n = 1 -> "1" [] n = 2 -> "2" [] OTHER -> "3"

\* res.stderr.strip()
Stderr(env) == IF env.collab = "exit0" THEN "" ELSE "network error"

\* one external action: a PowerShell command run through run_powershell, a
\* pip run, or a file-system call
Invocation(cmd, args) == [cmd |-> cmd, args |-> args]

\* what install() did: what it returned ("raise" when an exception left it),
\* the lines it logged and the external actions it started
Result(ret, lines, calls) == [ret |-> ret, log |-> lines, calls |-> calls]

\* any exit code counts as success
ExitOk_Any(rc) == TRUE

\* res.returncode == 0
ExitOk(rc) == rc = 0

\* the code after res = run_powershell(code): the call raised, or its exit
\* code is mapped to a SUCCESS line and True or to a WARN line and False
AfterPowershell(env, lines, calls, ok_line, warn_line) ==
    IF env.collab = "OSError"
    THEN Result("raise", lines, calls)
    ELSE IF ExitOk(ReturnCode(env))
    THEN Result("True", Append(lines, <<"SUCCESS", ok_line>>), calls)
    ELSE Result("False", Append(lines, <<"WARN", warn_line>>), calls)

\* both options are passed when both are configured
InstallArgsPart_Both(i) ==
    (IF Truthy(i.install_args) THEN <<"-InstallArguments", i.install_args>> ELSE <<>>)
    \o (IF Truthy(i.suppress_default_args)
        THEN <<"-SuppressDefaultInstallArgs">> ELSE <<>>)

\* if self.install_args: ... elif self.suppress_default_args: ...
InstallArgsPart(i) ==
    IF Truthy(i.install_args) THEN <<"-InstallArguments", i.install_args>>
    ELSE IF Truthy(i.suppress_default_args) THEN <<"-SuppressDefaultInstallArgs">>
    ELSE <<>>

\* the arguments of Install-ChocoPackage
ChocoArgs(i) ==
    <<"-Name", i.package_name>>
    \o (IF Truthy(i.version) THEN <<"-Version", i.version>> ELSE <<>>)
    \o (IF i.force THEN <<"-ForceReinstall">> ELSE <<>>)
    \o (IF i.what_if THEN <<"-WhatIf">> ELSE <<>>)
    \o InstallArgsPart(i)

\* ChocolateyInstaller.install
ChocoInstall(i, env) ==
    AfterPowershell(env,
        <<<<"INFO", <<"Installing ", i.tool_name, " via Chocolatey...">>>>>>,
        <<Invocation("Install-ChocoPackage", ChocoArgs(i))>>,
        <<i.tool_name, " installed successfully.">>,
        <<i.tool_name, " install returned ", Str(ReturnCode(env)), ": ", Stderr(env)>>)

\* the missing script is reported as a warning
MissingScriptLevel_Warn == "WARN"

\* self.logger.error(f"Script not found: ...")
MissingScriptLevel == "ERROR"

\* the flag string given to the script function
ScriptArgs(i) ==
    IF i.what_if /\ \A k \in 1..Len(i.ps_args) : i.ps_args[k] # "-WhatIf"
    THEN Append(i.ps_args, "-WhatIf")
    ELSE i.ps_args

\* PowerShellInstaller.install
PowerShellInstall(i, env) ==
    LET lines == <<<<"INFO", <<"Installing ", i.tool_name, "...">>>>>>
    IN  IF ~env.script_exists
        THEN Result("False",
                    Append(lines, <<MissingScriptLevel, <<"Script not found: ", i.script_path>>>>),
                    <<>>)
        ELSE AfterPowershell(env, lines,
                 <<Invocation(i.function_name, ScriptArgs(i))>>,
                 <<i.tool_name, " completed.">>,
                 <<i.function_name, " returned ", Str(ReturnCode(env)), ": ", Stderr(env)>>)

\* the desktop groups of the catalog, each once, in file order
RECURSIVE DesktopGroups(_)
DesktopGroups(items) ==
    IF items = <<>> THEN <<>>
    ELSE LET g == DesktopGroups(SubSeq(items, 1, Len(items) - 1))
             x == items[Len(items)].desktop_group
         IN  IF Truthy(x) /\ \A k \in 1..Len(g) : g[k] # x THEN Append(g, x) ELSE g

\* PrepareDesktopGroupsInstaller.install
PrepareDesktopGroupsInstall(i, cats, env) ==
    LET groups == DesktopGroups(AllItems(cats))
    IN  IF ~env.desktop
        THEN Result("False", <<<<"WARN", <<"Desktop path not found; skipping desktop group preparation.">>>>>>, <<>>)
        ELSE IF groups = <<>>
        THEN Result("True", <<<<"INFO", <<"No desktop groups defined in config; nothing to prepare.">>>>>>, <<>>)
        ELSE Result("True",
                 (IF i.what_if
                  THEN [k \in 1..Len(groups) |-> <<"INFO", <<"[what-if] Create folder ", groups[k]>>>>]
                  ELSE <<>>)
                 \o <<<<"SUCCESS", <<"Prepared ", Str(Len(groups)), " desktop group folder(s).">>>>>>,
                 IF i.what_if THEN <<>>
                 ELSE [k \in 1..Len(groups) |-> Invocation("os.makedirs", <<groups[k]>>)])

\* NetworkCheckInstaller.install
NetworkCheckInstall(i, env) ==
    LET urls == <<"https://www.google.com/generate_204", "https://github.com">>
        ok == IF env.collab = "exit0" THEN Len(urls) ELSE 0
    IN  Result(IF ok > 0 THEN "True" ELSE "False",
               <<<<"INFO", <<"Checking network connectivity...">>>>>>
               \o [k \in 1..Len(urls) |->
                      IF env.collab = "exit0" THEN <<"SUCCESS", <<"Reachable: ", urls[k]>>>>
                      ELSE <<"WARN", <<"Not reachable: ", urls[k]>>>>]
               \o <<<<"INFO", <<"Network connectivity summary: ", Str(ok), "/", Str(Len(urls)), " reachable">>>>>>,
               [k \in 1..Len(urls) |-> Invocation("urlopen", <<urls[k]>>)])

\* ChocolateySetupInstaller.install
ChocolateySetupInstall(i, env) ==
    AfterPowershell(env, <<<<"INFO", <<"Ensuring Chocolatey...">>>>>>,
        <<Invocation("Ensure-Chocolatey", <<>>)>>,
        <<"Chocolatey is ready.">>,
        <<"Chocolatey setup returned ", Str(ReturnCode(env)), ": ", Stderr(env)>>)

\* PipUpgradeInstaller.install
PipUpgradeInstall(i, env) ==
    LET lines == <<<<"INFO", <<"Upgrading pip and core tools...">>>>>>
        first == Invocation("pip", <<"install", "-U", "pip", "setuptools", "wheel">>)
        second == Invocation("pip", <<"install", "-U", "pipx", "virtualenv">>)
    IN  IF env.collab = "OSError"
        THEN Result("False", Append(lines, <<"WARN", <<"pip upgrade failed: ", "OSError">>>>), <<first>>)
        ELSE Result("True", Append(lines, <<"SUCCESS", <<"Pip and core tools upgraded.">>>>),
                    <<first, second>>)

\* WallpaperInstaller.install
WallpaperInstall(i, env) ==
    IF ~env.asset_exists
    THEN Result("False", <<<<"WARN", <<"Wallpaper not found in assets; skipping.">>>>>>, <<>>)
    ELSE AfterPowershell(env,
             <<<<"SUCCESS", <<"Wallpaper copied to ", "holmes-wallpaper.jpg">>>>,
               <<"INFO", <<"Applying wallpaper...">>>>>>,
             <<Invocation("os.makedirs", <<"C:\\Tools\\Wallpapers">>),
               Invocation("shutil.copyfile", <<"wallpaper.jpg", "holmes-wallpaper.jpg">>),
               Invocation("Set-Wallpaper", <<"-ImagePath", "holmes-wallpaper.jpg", "-Style", "Fill">>)>>,
             <<"Wallpaper applied.">>,
             <<"Apply wallpaper returned ", Str(ReturnCode(env)), ": ", Stderr(env)>>)

\* AppearanceInstaller.install
AppearanceInstall(i, env) ==
    AfterPowershell(env, <<<<"INFO", <<"Applying Sherlock Holmes dark theme...">>>>>>,
        <<Invocation("Set-WindowsAppearance",
                     <<"-DarkMode", "-AccentHex", "#A0826D", "-ShowAccentOnTaskbar",
                       "-EnableTransparency", "-ApplyForAllUsers", "-RestartExplorer">>)>>,
        <<"Dark theme with Victorian brown accent applied.">>,
        <<"Appearance setup returned ", Str(ReturnCode(env)), ": ", Stderr(env)>>)

\* OrganizeDesktopInstaller._safe_move of the one matching shortcut
SafeMove(i, dst_dir) ==
    Result("dst",
           IF i.what_if THEN <<<<"INFO", <<"[what-if] Move ", "shortcut.lnk", " -> ", dst_dir>>>>>> ELSE <<>>,
           <<Invocation("os.makedirs", <<dst_dir>>)>>
           \o (IF i.what_if THEN <<>>
               ELSE <<Invocation("shutil.move", <<"shortcut.lnk", dst_dir>>)>>))

\* OrganizeDesktopInstaller.install
OrganizeDesktopInstall(i, cats, env) ==
    LET groups == DesktopGroups(AllItems(cats))
        dirs == [k \in 1..Len(groups) |-> Invocation("os.makedirs", <<groups[k]>>)]
        moved == SafeMove(i, groups[1])
    IN  IF ~env.desktop
        THEN Result("False", <<<<"WARN", <<"Desktop path not found; skipping organization.">>>>>>, <<>>)
        ELSE IF groups = <<>>
        THEN Result("True", <<<<"INFO", <<"No desktop grouping metadata present; nothing to organize.">>>>>>, <<>>)
        ELSE IF env.shortcut
        THEN Result("True",
                    Append(moved.log, <<"SUCCESS", <<"Desktop shortcuts organized into folders.">>>>),
                    dirs \o moved.calls)
        ELSE Result("True", <<<<"INFO", <<"No desktop items matched for organization.">>>>>>, dirs)

\* installer.install() for the installer object i, with the catalog cats it
\* was constructed over
Install(i, cats, env) ==
    CASE i.kind = "chocolatey" -> ChocoInstall(i, env)
      [] i.kind = "powershell" -> PowerShellInstall(i, env)
      [] i.kind = "prepare_desktop_groups" -> PrepareDesktopGroupsInstall(i, cats, env)
      [] i.kind = "network_check" -> NetworkCheckInstall(i, env)
      [] i.kind = "ensure_choco" -> ChocolateySetupInstall(i, env)
      [] i.kind = "upgrade_pip" -> PipUpgradeInstall(i, env)
      [] i.kind = "install_wallpaper" -> WallpaperInstall(i, env)
      [] i.kind = "set_appearance" -> AppearanceInstall(i, env)
      [] i.kind = "organize_desktop" -> OrganizeDesktopInstall(i, cats, env)

\* the catalogs the function installers are constructed over
FunctionCatalogs == {<<>>, <<Category("tools", "Tools", <<wireshark, eztools>>)>>}

InstallFrame == <<run_vars, installers, reg_hist, resolved, bres, xres, vres, main_vars, poll_vars, aux_vars>>

\* an installer object exists: built by the step builder for a selected tool,
\* constructed directly, or made by the registry from a function installer id
InstInit ==
    /\ RunIdle
    /\ AuxIdle
    /\ preselected = NotShown
    /\ tools_json = NoFile
    /\ entry = "none"
    /\ mpc = "none"
    /\ main_ret = "none"
    /\ exit_code = -1
    /\ handled = <<>>
    /\ polling = FALSE
    /\ installers = RegisteredAtImport
    /\ reg_hist = <<>>
    /\ resolved = <<>>
    /\ bres = <<>>
    /\ xres = <<>>
    /\ vres = <<>>
    /\ ires = <<>>
    /\ \E opts \in Options :
         \/ \E tool \in InstallTools :
               /\ manifest = <<Category("tools", "Tools", <<tool>>)>>
               /\ selection = <<tool.id>>
               /\ instance = InstallerOf(tool, opts)
         \/ /\ manifest = <<>>
            /\ selection = <<>>
            /\ instance \in {d \in DirectInstallers : d.what_if = opts.what_if /\ d.force = opts.force}
         \/ \E id \in FunctionIds :
               /\ manifest \in FunctionCatalogs
               /\ selection = <<>>
               /\ instance = FunctionInstaller(id, opts)

\* the step's action calls inst.install()
RunInstall ==
    /\ ires = <<>>
    /\ \E env \in Envs :
         LET r == Install(instance, manifest, env)
         IN  ires' = [ret |-> r.ret, log |-> r.log, calls |-> r.calls, env |-> env]
    /\ UNCHANGED <<instance, manifest, selection, InstallFrame>>

InstNext == RunInstall

InstallSpec == InstInit /\ [][InstNext]_vars

(* --------------------------- the event queue ---------------------------- *)

\* events one run puts on the queue
MaxEvents == 3

\* the tagged events of a one-step GUI run
Events ==
    {StepHdr(1, 1, "Install Wireshark"), Status("Working"), ProgressTo(0),
     StepResult(1, TRUE), ProgressTo(100), EnableCloseEvent}

\* the item stays at the head of the queue
Rest_Keeps(q) == q

\* what get_nowait() leaves in the queue
Rest(q) == Tail(q)

\* the state of the Stop button after the branch of _process_queue for item
\* ran: enable_close() disables it, the other branches leave it alone, and a
\* step_result item has no branch at all
Dispatch(item, btn) == IF item.kind = "enable_close" THEN "disabled" ELSE btn

QueueFrame == <<steps, mode, has_cancel, dlg, cancel, pc, idx, success, raised, broke, current_step, log, last_eta, invoked, outcome, cancel_at, manifest, selection, installers, reg_hist, resolved, bres, xres, vres, main_vars, inst_vars, aux_vars>>

\* the window exists, its queue is empty and the first poll is scheduled
QueueInit ==
    /\ steps = <<>>
    /\ mode = "gui"
    /\ has_cancel = FALSE
    /\ dlg = "closed"
    /\ stop_btn = "normal"
    /\ cancel = FALSE
    /\ pc = [t \in Threads |-> "none"]
    /\ idx = [t \in Threads |-> 0]
    /\ success = [t \in Threads |-> TRUE]
    /\ raised = [t \in Threads |-> FALSE]
    /\ broke = [t \in Threads |-> FALSE]
    /\ current_step = None
    /\ log = <<>>
    /\ queue = <<>>
    /\ emitted = <<>>
    /\ last_eta = -1
    /\ invoked = <<>>
    /\ outcome = <<>>
    /\ cancel_at = <<>>
    /\ CatIdle

\* UI.enqueue on the run thread: put() on a queue without a size limit
Enqueue(e) ==
    /\ Len(emitted) < MaxEvents
    /\ queue' = Append(queue, e)
    /\ emitted' = Append(emitted, e)
    /\ UNCHANGED <<stop_btn, handled, polling, QueueFrame>>

\* the timer of root.after(100, ...) fires and _process_queue starts
PollStart ==
    /\ ~polling
    /\ polling' = TRUE
    /\ UNCHANGED <<queue, emitted, stop_btn, handled, QueueFrame>>

\* one round of the loop of _process_queue: get_nowait() returns an item and
\* its branch runs
PollGet ==
    /\ polling
    /\ queue # <<>>
    /\ handled' = Append(handled, Head(queue))
    /\ stop_btn' = Dispatch(Head(queue), stop_btn)
    /\ queue' = Rest(queue)
    /\ UNCHANGED <<emitted, polling, QueueFrame>>

\* get_nowait() raises queue.Empty: the round ends and the next is scheduled
PollEmpty ==
    /\ polling
    /\ queue = <<>>
    /\ polling' = FALSE
    /\ UNCHANGED <<queue, emitted, stop_btn, handled, QueueFrame>>

QueueNext ==
    \/ \E e \in Events : Enqueue(e)
    \/ PollStart
    \/ PollGet
    \/ PollEmpty

QueueSpec == QueueInit /\ [][QueueNext]_vars

(* ------------------------ the desktop organizer ------------------------ *)

\* characters of a desktop entry name
MaxName == 4

\* a text is the sequence of its characters; a file extension counts as one
Chars == {"a", "b", "A"}

EntryNames == UNION {[1..n -> Chars] : n \in 0..MaxName}

\* str.lower()
LowerText(w) ==
    [k \in 1..Len(w) |-> IF w[k] = "A" THEN "a" ELSE IF w[k] = "B" THEN "b" ELSE w[k]]

\* tok in name
Occurs(tok, name) ==
    \E i \in 0..(Len(name) - Len(tok)) : SubSeq(name, i + 1, i + Len(tok)) = tok

\* the tokens _build_group_tokens gives a group: lower case, each once
TokenPool == {<<"a", "b">>, <<"b", "a">>, <<"a", "b", "a">>, <<"a", "b", "a", "b">>}

TokenLists ==
    {<<>>} \cup {<<t>> : t \in TokenPool}
           \cup {p \in TokenPool \X TokenPool : p[1] # p[2]}

\* one (group, tokens) pair
GroupTokens(group, tokens) == [group |-> group, tokens |-> tokens]

GroupLists ==
    {<<>>} \cup {<<GroupTokens("Network", t)>> : t \in TokenLists}
           \cup {<<GroupTokens("Network", t), GroupTokens("Forensics", u)>> :
                    t \in TokenLists, u \in TokenLists}

\* sum(len(tok) for tok in tokens if tok in name)
RECURSIVE Score(_, _)
Score(tokens, name) ==
    IF tokens = <<>> THEN 0
    ELSE (IF Occurs(Head(tokens), name) THEN Len(Head(tokens)) ELSE 0)
         + Score(Tail(tokens), name)

\* a group that scores the same replaces the best one
Better_OrEqual(score, best_score) == score >= best_score

\* if score > best_score
Better(score, best_score) == score > best_score

\* the loop of _pick_group_for_entry over the pairs left
RECURSIVE PickLoop(_, _, _)
PickLoop(name, pairs, best) ==
    IF pairs = <<>> THEN best
    ELSE LET p == Head(pairs)
             score == Score(p.tokens, name)
         IN  IF p.tokens = <<>> THEN PickLoop(name, Tail(pairs), best)
             ELSE IF Better(score, best.score)
             THEN PickLoop(name, Tail(pairs), [group |-> p.group, score |-> score])
             ELSE PickLoop(name, Tail(pairs), best)

\* _pick_group_for_entry(entry_name, group_tokens)
PickGroupForEntry(entry_name, group_tokens) ==
    LET best == PickLoop(LowerText(entry_name), group_tokens,
                         [group |-> None, score |-> 0])
    IN  IF best.score < 4 THEN None ELSE best.group

PickFrame == <<run_vars, manifest, selection, installers, reg_hist, resolved, bres, xres, vres, main_vars, inst_vars, poll_vars, progress, anim_target, anim_job, desk, cons>>

\* an entry of the desktop is about to be matched against the groups
PickInit ==
    /\ RunIdle
    /\ manifest = <<>>
    /\ selection = <<>>
    /\ installers = <<>>
    /\ reg_hist = <<>>
    /\ resolved = <<>>
    /\ bres = <<>>
    /\ xres = <<>>
    /\ vres = <<>>
    /\ tools_json = NoFile
    /\ entry = "none"
    /\ mpc = "none"
    /\ main_ret = "none"
    /\ exit_code = -1
    /\ preselected = NotShown
    /\ instance = <<>>
    /\ ires = <<>>
    /\ handled = <<>>
    /\ polling = FALSE
    /\ progress = 0
    /\ anim_target = 0
    /\ anim_job = 0
    /\ desk = <<>>
    /\ cons = <<>>
    /\ \E n \in EntryNames, g \in GroupLists :
         pick = [name |-> n, groups |-> g, out |-> "unset"]

\* chosen = self._pick_group_for_entry(name, group_tokens)
Pick ==
    /\ pick.out = "unset"
    /\ pick' = [pick EXCEPT !.out = PickGroupForEntry(pick.name, pick.groups)]
    /\ UNCHANGED PickFrame

PickNext == Pick

PickSpec == PickInit /\ [][PickNext]_vars

\* the characters of the desktop item and folder names used below
Text(n) ==
    CASE n = "Abab" -> <<"A", "b", "a", "b">>
      [] n = "abab" -> <<"a", "b", "a", "b">>
      [] n = "bb" -> <<"b", "b">>
      [] n = "baAb" -> <<"b", "a", "A", "b">>
      [] n = "abab.lnk" -> <<"a", "b", "a", "b", ".lnk">>
      [] n = "Abab.lnk" -> <<"A", "b", "a", "b", ".lnk">>
      [] n = "ab.url" -> <<"a", "b", ".url">>
      [] n = "abab.txt" -> <<"a", "b", "a", "b", ".txt">>

\* os.path.normcase on Windows
Normcase(n) == LowerText(Text(n))

\* an entry below the desktop: its name, the folder it is in, and its kind
DeskEntry(name, parent, is_dir) == [name |-> name, parent |-> parent, is_dir |-> is_dir]

\* what may lie directly on the desktop before the pass
TopPool ==
    {DeskEntry("abab", "Desktop", TRUE), DeskEntry("baAb", "Desktop", TRUE),
     DeskEntry("Abab.lnk", "Desktop", FALSE), DeskEntry("ab.url", "Desktop", FALSE),
     DeskEntry("abab.txt", "Desktop", FALSE)}

\* what may lie inside a folder of the desktop before the pass
NestedPool == {DeskEntry("abab.lnk", "baAb", FALSE)}

\* the desktop_group values of the catalog
OrgGroups == {"Abab", "bb", "abab.lnk"}

OrgTokenLists ==
    {<<>>, <<Text("abab")>>, <<<<"a", "b">>>>, <<<<"a", "b">>, <<"b", "a">>>>,
     <<<<"a", "b", "a">>>>}

\* the results of _build_group_tokens: one pair for each group
OrgGroupLists ==
    {<<>>} \cup {<<GroupTokens(g, t)>> : g \in OrgGroups, t \in OrgTokenLists}
           \cup {<<GroupTokens(p[1], t), GroupTokens(p[2], u)>> :
                    p \in {q \in OrgGroups \X OrgGroups : q[1] # q[2]},
                    t \in OrgTokenLists, u \in OrgTokenLists}

\* os.listdir(desktop)
Listdir(entries) == {e \in entries : e.parent = "Desktop"}

\* the groups of the pairs
GroupsOf(group_tokens) == {group_tokens[k].group : k \in 1..Len(group_tokens)}

\* os.makedirs(group_dir, exist_ok=True) for every group
MakeGroupDirs(entries, group_tokens) ==
    entries \cup {DeskEntry(g, "Desktop", TRUE) :
                    g \in {h \in GroupsOf(group_tokens) :
                              \A e \in Listdir(entries) : Normcase(e.name) # Normcase(h)}}

\* os.path.normcase(d) in protected_dirs
Protected(d, group_tokens) ==
    \E g \in GroupsOf(group_tokens) : Normcase(d.name) = Normcase(g)

\* lower.endswith('.lnk') or lower.endswith('.url')
IsShortcut(e) ==
    LET lower == LowerText(Text(e.name))
    IN  Len(lower) > 0 /\ lower[Len(lower)] \in {".lnk", ".url"}

\* shutil.move refuses to move a folder into itself
MoveRaises(e, chosen) == e.is_dir /\ Normcase(e.name) = Normcase(chosen)

\* the first loop of install: the folders listed before the group folders
\* were made
MovedDirs(entries, group_tokens) ==
    {e \in Listdir(entries) :
        /\ e.is_dir
        /\ ~Protected(e, group_tokens)
        /\ PickGroupForEntry(Text(e.name), group_tokens) # None}

\* the second loop of install: the entries listed after the first loop
MovedShortcuts(entries, group_tokens) ==
    {e \in Listdir(entries) :
        /\ IsShortcut(e)
        /\ PickGroupForEntry(LowerText(Text(e.name)), group_tokens) # None
        /\ ~MoveRaises(e, PickGroupForEntry(LowerText(Text(e.name)), group_tokens))}

\* _safe_move of every entry of the set into the folder of its group
MoveAll(entries, moving, group_tokens) ==
    (entries \ moving) \cup
    {[e EXCEPT !.parent = PickGroupForEntry(Text(e.name), group_tokens)] : e \in moving}

\* OrganizeDesktopInstaller.install on a desktop that exists
OrganizeDesktop(entries, group_tokens, what_if) ==
    IF group_tokens = <<>> THEN [entries |-> entries, moved |-> {}]
    ELSE LET made == MakeGroupDirs(entries, group_tokens)
             dirs == IF what_if THEN {} ELSE MovedDirs(entries, group_tokens)
             after == MoveAll(made, dirs, group_tokens)
             links == IF what_if THEN {} ELSE MovedShortcuts(after, group_tokens)
         IN  [entries |-> MoveAll(after, links, group_tokens), moved |-> dirs \cup links]

OrgFrame == <<run_vars, manifest, selection, installers, reg_hist, resolved, bres, xres, vres, main_vars, inst_vars, poll_vars, progress, anim_target, anim_job, pick, cons>>

\* a desktop and a catalog before the pass
OrgInit ==
    /\ RunIdle
    /\ manifest = <<>>
    /\ selection = <<>>
    /\ installers = <<>>
    /\ reg_hist = <<>>
    /\ resolved = <<>>
    /\ bres = <<>>
    /\ xres = <<>>
    /\ vres = <<>>
    /\ tools_json = NoFile
    /\ entry = "none"
    /\ mpc = "none"
    /\ main_ret = "none"
    /\ exit_code = -1
    /\ preselected = NotShown
    /\ instance = <<>>
    /\ ires = <<>>
    /\ handled = <<>>
    /\ polling = FALSE
    /\ progress = 0
    /\ anim_target = 0
    /\ anim_job = 0
    /\ pick = <<>>
    /\ cons = <<>>
    /\ \E top \in SUBSET TopPool, nested \in SUBSET NestedPool, g \in OrgGroupLists, w \in BOOLEAN :
         desk = [before |-> top \cup nested, entries |-> top \cup nested, groups |-> g,
                 what_if |-> w, moved |-> {}, done |-> FALSE]

\* one organize_desktop pass
Organize ==
    /\ ~desk.done
    /\ LET r == OrganizeDesktop(desk.entries, desk.groups, desk.what_if)
       IN  desk' = [desk EXCEPT !.entries = r.entries, !.moved = r.moved, !.done = TRUE]
    /\ UNCHANGED OrgFrame

OrgNext == Organize

OrgSpec == OrgInit /\ [][OrgNext]_vars

(* ------------------------ the progress animation ----------------------- *)

\* progress_to events one window handles
MaxTargets == 3

\* the values of the progress_to events: in range, below it and above it
Targets == {-5, 7, 50, 150}

\* the programs with a Tk window that animates its progress bar
AnimEntries == {"holmes_vm/setup.py", "holmes_setup.py"}

Min(a, b) == IF a < b THEN a ELSE b

Max(a, b) == IF a > b THEN a ELSE b

Abs(a) == IF a < 0 THEN 0 - a ELSE a

\* max(0, min(100, int(value)))
Clamp(v) == Max(0, Min(100, v))

\* the step is added without looking at the target
NextValue_Overshoot(ui, current, target) ==
    LET diff == target - current
        step == IF ui = "holmes_setup.py" THEN 2 ELSE Max(1, Abs(diff) \div 10)
    IN  IF diff > 0 THEN current + step ELSE current - step

\* nxt of _animate_step: a tenth of the distance, at least 1, in window.py; 2
\* in holmes_setup.py; neither goes past the target
NextValue(ui, current, target) ==
    LET diff == target - current
        step == IF ui = "holmes_setup.py" THEN 2 ELSE Max(1, Abs(diff) \div 10)
    IN  IF diff > 0 THEN Min(current + step, target) ELSE Max(current - step, target)

\* self._anim_job and the timers of root.after that have not fired yet
Job(id, pending) == [id |-> id, pending |-> pending]

AnimFrame == <<run_vars, manifest, selection, installers, reg_hist, resolved, bres, xres, vres, tools_json, mpc, main_ret, exit_code, preselected, entry, inst_vars, polling, pick, desk, cons>>

\* the window was constructed
AnimInit ==
    /\ RunIdle
    /\ manifest = <<>>
    /\ selection = <<>>
    /\ installers = <<>>
    /\ reg_hist = <<>>
    /\ resolved = <<>>
    /\ bres = <<>>
    /\ xres = <<>>
    /\ vres = <<>>
    /\ tools_json = NoFile
    /\ entry \in AnimEntries
    /\ mpc = "none"
    /\ main_ret = "none"
    /\ exit_code = -1
    /\ preselected = NotShown
    /\ instance = <<>>
    /\ ires = <<>>
    /\ handled = <<>>
    /\ polling = FALSE
    /\ pick = <<>>
    /\ desk = <<>>
    /\ cons = <<>>
    /\ progress = 0
    /\ anim_target = 0
    /\ anim_job = Job(None, 0)

\* _process_queue handles ('progress_to', v): animate_progress_to(v)
AnimateProgressTo(v) ==
    /\ Len(handled) < MaxTargets
    /\ handled' = Append(handled, ProgressTo(v))
    /\ anim_target' = Clamp(v)
    /\ anim_job' = IF anim_job.id = None
                   THEN Job("after", anim_job.pending + 1) ELSE anim_job
    /\ UNCHANGED <<progress, AnimFrame>>

\* a timer fires: _animate_step
AnimateStep ==
    /\ anim_job.pending > 0
    /\ IF progress = anim_target
       THEN /\ anim_job' = Job(None, anim_job.pending - 1)
            /\ UNCHANGED progress
       ELSE /\ progress' = Clamp(NextValue(entry, progress, anim_target))
            /\ anim_job' = Job("after", anim_job.pending)
    /\ UNCHANGED <<anim_target, handled, AnimFrame>>

AnimNext ==
    \/ \E v \in Targets : AnimateProgressTo(v)
    \/ AnimateStep

AnimSpec == AnimInit /\ [][AnimNext]_vars

\* the event loop of Tk runs every timer that is due
AnimFairSpec == AnimSpec /\ WF_vars(AnimateStep)

(* ----------------------------- properties ------------------------------ *)

\* run_steps / run_steps_console has returned to its caller
Returned(t) == pc[t] \in {"finally", "done"}

\* the events of the given kinds that the run thread has put, in order
EventsOf(kinds) == SelectSeq(emitted, LAMBDA e : e.kind \in kinds)

\* C1: continue-on-error.  In run_steps without cancellation and in
\* run_steps_console no action is ever invoked twice, an exception raised by
\* an action is held at the except clause of its own iteration (it does not
\* leave the loop), and when the runner has returned every step's action was
\* invoked exactly once, whatever actions raised.
C1_ContinueOnError ==
    /\ \A k \in 1..Total : invoked[k] <= 1
    /\ \A t \in Threads : raised[t] => pc[t] = "outcome"
    /\ \A t \in Threads :
          (Returned(t) /\ ~broke[t]) => \A k \in 1..Total : invoked[k] = 1

\* a console run of at least two steps whose first action raised has returned
C1_Witness ==
    /\ mode = "console"
    /\ pc[1] = "done"
    /\ Total >= 2
    /\ outcome[1] = "raise"
    /\ invoked[Total] = 1

\* C2: every step-result event carries success = TRUE exactly when the
\* step's installer succeeded: FALSE when the action raised and FALSE when
\* install() returned False.
C2_LedgerMatchesOutcome ==
    \A j \in 1..Len(emitted) :
        emitted[j].kind = "step_result" =>
            emitted[j].success = (outcome[emitted[j].idx] = "ok")

\* the number of log lines of a level with a message
CountLog(level, msg) ==
    Cardinality({n \in 1..Len(log) : log[n].level = level /\ log[n].msg = msg})

\* the flag was set while runner t stood at position p
FlagSetAt(t, p) == cancel_at # <<>> /\ cancel_at[1][t] = p

\* the index runner t had when the flag was set
FlagSetIdx(t) == cancel_at[2][t]

\* the run thread has put exactly one step-result for step j, and it tells
\* whether the action returned
OneResultFor(j) ==
    /\ Len(SelectSeq(emitted, LAMBDA e : e.kind = "step_result" /\ e.idx = j)) = 1
    /\ \E n \in 1..Len(emitted) :
          emitted[n] = StepResult(j, outcome[j] # "raise")

\* C3: cancellation boundary.  When the flag is set while the runner stands
\* between step k and step k+1 (at the loop head with index k+1 <= N), then
\* once the runner has moved it has left the loop by the break: no action of
\* steps k+1..N was invoked, no step header or step result was put for them,
\* exactly one warning was logged for the cancellation, and steps 1..k keep
\* the single invocation and the step result they had.
C3_CancellationBoundary ==
    \A t \in Threads :
        (has_cancel /\ FlagSetAt(t, "loop") /\ FlagSetIdx(t) <= Total
            /\ pc[t] # "loop") =>
        /\ broke[t]
        /\ idx[t] = FlagSetIdx(t)
        /\ \A j \in FlagSetIdx(t)..Total :
              /\ invoked[j] = 0
              /\ outcome[j] = "none"
              /\ \A n \in 1..Len(emitted) :
                    emitted[n].kind \in {"step_hdr", "step_result"}
                        => emitted[n].idx # j
        /\ CountLog("WARN", "cancelled") = 1
        /\ \A j \in 1..(FlagSetIdx(t) - 1) :
              /\ invoked[j] = 1
              /\ mode = "gui" => OneResultFor(j)

\* a GUI run was stopped between two steps and has ended
C3_Witness ==
    /\ mode = "gui"
    /\ FlagSetAt(1, "loop")
    /\ FlagSetIdx(1) \in 2..Total
    /\ broke[1]
    /\ pc[1] = "done"

\* C4: cancellation is never mid-step.  When the flag is set while the action
\* of step k is in flight, the action ends with an outcome of its own, the
\* runner leaves the loop only by the break at the head of iteration k+1, by
\* then the step result and the progress target of step k are the last
\* progress events put, and no later action is invoked.
C4_NeverMidStep ==
    \A t \in Threads :
        (has_cancel /\ FlagSetAt(t, "inflight")) =>
        LET k == FlagSetIdx(t) IN
        /\ idx[t] \in {k, k + 1}
        /\ invoked[k] = 1
        /\ (pc[t] # "inflight") => outcome[k] # "none"
        /\ \A j \in (k + 1)..Total : invoked[j] = 0
        /\ (pc[t] \in {"clear", "finally", "done"} /\ k < Total) => broke[t]
        /\ broke[t] =>
              /\ idx[t] = k + 1
              /\ mode = "gui" =>
                    LET ev == EventsOf({"step_hdr", "step_result", "progress_to"})
                    IN  /\ Len(ev) >= 2
                        /\ ev[Len(ev) - 1] = StepResult(k, outcome[k] # "raise")
                        /\ ev[Len(ev)] = ProgressTo((k * 100) \div Total)

\* Stop was clicked while an action that is not the last was in flight, and
\* the run has ended
C4_Witness ==
    /\ mode = "gui"
    /\ FlagSetAt(1, "inflight")
    /\ FlagSetIdx(1) < Total
    /\ broke[1]
    /\ pc[1] = "done"

\* a step whose action was called and has not ended yet
InFlight(j) == invoked[j] > 0 /\ outcome[j] = "none"

\* C5: serial execution.  At most one runner thread exists, at most one
\* action is in flight, and an action is called only when the actions of all
\* earlier steps have returned or raised.
C5_SerialExecution ==
    /\ Cardinality({t \in Threads : pc[t] # "none"}) <= 1
    /\ Cardinality({t \in Threads : pc[t] = "inflight"}) <= 1
    /\ Cardinality({j \in 1..Total : InFlight(j)}) <= 1
    /\ \A j \in 1..Total :
          invoked[j] > 0 => \A h \in 1..(j - 1) : outcome[h] # "none"

\* the second action of a GUI run is in flight after Stop was clicked
C5_Witness ==
    /\ mode = "gui"
    /\ cancel
    /\ pc[1] = "inflight"
    /\ idx[1] = 2
    /\ InFlight(2)

\* the states of the runner: Idle -> Running -> (Cancelled | Completed)
RunState(t) ==
    IF pc[t] = "none" THEN "Idle"
    ELSE IF ~Returned(t) THEN "Running"
    ELSE IF broke[t] THEN "Cancelled" ELSE "Completed"

\* C6: the run always reaches a terminal state.  Under fair scheduling of
\* the runner (actions end in finite time) a started run returns, for every
\* step list; a run that has returned is Completed with all N actions
\* invoked, or Cancelled with the flag set and the loop left at a step
\* boundary (every earlier action ended, no later one invoked); and no
\* action is ever entered twice.
C6_RunTerminates ==
    /\ \A t \in Threads : (pc[t] # "none") ~> Returned(t)
    /\ [](\A t \in Threads :
            /\ RunState(t) = "Completed" => \A k \in 1..Total : invoked[k] = 1
            /\ RunState(t) = "Cancelled" =>
                  /\ has_cancel /\ cancel
                  /\ idx[t] <= Total
                  /\ \A k \in 1..(idx[t] - 1) : invoked[k] = 1 /\ outcome[k] # "none"
                  /\ \A k \in idx[t]..Total : invoked[k] = 0)
    /\ [](\A k \in 1..Total : invoked[k] <= 1)

\* a run of at least two steps in which every action raised has returned
C6_Witness ==
    /\ pc[1] = "done"
    /\ Total >= 2
    /\ \A k \in 1..Total : outcome[k] = "raise"

\* C7: progress monotonicity.  The progress-target values the run thread
\* puts during one run are non-decreasing and lie in 0..100, whatever actions
\* fail and whenever the run is cancelled.
C7_ProgressMonotone ==
    LET pv == EventsOf({"progress_to"})
    IN  \A n \in 1..Len(pv) :
            /\ pv[n].value \in 0..100
            /\ n > 1 => pv[n - 1].value <= pv[n].value

\* a GUI run with a raising action has put four progress targets that grew
C7_Witness ==
    LET pv == EventsOf({"progress_to"})
    IN  /\ mode = "gui"
        /\ Len(pv) >= 4
        /\ pv[1].value < pv[Len(pv)].value
        /\ \E k \in 1..Total : outcome[k] = "raise"

\* C8 as stated: the progress target put right after the step result of step
\* i equals round(i / total * 100).
C8_ProgressIsRounded ==
    \A n \in 1..(Len(emitted) - 1) :
        emitted[n].kind = "step_result" =>
            emitted[n + 1] = ProgressTo(PyRound(emitted[n].idx * 100, Total))

\* C8 amended: the progress target put right after the step result of step i
\* equals i * 100 / total truncated to an integer.
C8_ProgressIsTruncated ==
    \A n \in 1..(Len(emitted) - 1) :
        emitted[n].kind = "step_result" =>
            emitted[n + 1] = ProgressTo((emitted[n].idx * 100) \div Total)

\* a progress target was put after a step result where truncating and
\* rounding differ
C8_Witness ==
    \E n \in 1..(Len(emitted) - 1) :
        /\ emitted[n].kind = "step_result"
        /\ emitted[n + 1].kind = "progress_to"
        /\ emitted[n + 1].value # PyRound(emitted[n].idx * 100, Total)

\* C9: per-step event ordering of a GUI run.  The step headers, progress
\* targets and step results the run thread puts come in rounds of four, the
\* i-th round being header (i, total, name), target for (i-1)/total, result
\* (i, success), target for i/total; the action of step i is called after
\* the first two of its round and has ended before the third.
C9_EventOrder ==
    LET ev == EventsOf({"step_hdr", "progress_to", "step_result"})
    IN  /\ \A p \in 1..Len(ev) :
              LET i == ((p - 1) \div 4) + 1
                  r == (p - 1) % 4
              IN  /\ i <= Total
                  /\ r = 0 => ev[p] = StepHdr(i, Total, steps[i])
                  /\ r = 1 => ev[p] = ProgressTo(((i - 1) * 100) \div Total)
                  /\ r = 2 => /\ outcome[i] # "none"
                              /\ ev[p] = StepResult(i, outcome[i] # "raise")
                  /\ r = 3 => ev[p] = ProgressTo((i * 100) \div Total)
        /\ mode = "gui" =>
              \A i \in 1..Total :
                  /\ invoked[i] > 0 => Len(ev) >= 4 * (i - 1) + 2
                  /\ InFlight(i) => Len(ev) = 4 * (i - 1) + 2

\* a GUI run has put the events of two whole steps
C9_Witness ==
    /\ mode = "gui"
    /\ Len(EventsOf({"step_hdr", "progress_to", "step_result"})) = 8
    /\ outcome[2] # "none"

\* C10: logger step context.  From the call of step k's action to the
\* logging of its outcome the logger's context is step k's name, every line
\* logged while the action runs carries the tag of that name, and when the
\* runner has returned, by completion or by the break, the context is None.
C10_LoggerContext ==
    /\ [](\A t \in Threads :
            /\ pc[t] \in {"call", "inflight", "outcome"}
                  => current_step = steps[idx[t]]
            /\ Returned(t) => current_step = None)
    /\ [][\A t \in Threads :
            (pc[t] \in {"call", "inflight"} /\ log' # log) =>
                log'[Len(log')].ctx = <<"[", steps[idx[t]], "]">>]_vars

\* a cancelled run whose action logged a line has returned with the context
\* cleared
C10_Witness ==
    /\ pc[1] = "done"
    /\ broke[1]
    /\ current_step = None
    /\ \E n \in 1..Len(log) :
          log[n].msg = "installed" /\ log[n].ctx = <<"[", steps[1], "]">>

\* the registrations of an id among the first n register calls
RegistrationsOf(id, n) ==
    SelectSeq(SubSeq(reg_hist, 1, n), LAMBDA r : r[1] = id)

StepNames == [i \in 1..Len(bres.steps) |-> bres.steps[i].name]

\* the selected ids the steps after the two fixed ones were built for
StepTools == [i \in 1..(Len(bres.steps) - 2) |-> bres.steps[i + 2].tool]

\* the selected id is a tool of the catalog of one of the three installer
\* types, and a function tool names an installer id the registry holds
ValidTool(id) ==
    LET tool == GetToolById(manifest, id)
    IN  /\ tool.shape = "dict"
        /\ tool.installer_type \in {"chocolatey", "powershell", "function"}
        /\ tool.installer_type = "function" => tool.installer \in DOMAIN installers

\* C12: tool-to-step expansion.  When every selected id is a tool of the
\* catalog (a function tool naming a registered installer id), the call
\* returns a list with exactly one primary step per selected tool, in the
\* order of the selection.
C12_OnePrimaryStepPerTool ==
    (bres # <<>> /\ \A i \in 1..Len(selection) : ValidTool(selection[i])) =>
        /\ ~bres.raised
        /\ StepTools = selection

\* C13 as stated: building from ["wireshark"] gives a list of exactly one
\* step, named "Install Wireshark".
C13_ExactlyOneStep ==
    (bres # <<>> /\ manifest = ManifestOf({"wireshark"})
                /\ selection = <<"wireshark">>) =>
        /\ Len(bres.steps) = 1
        /\ bres.steps[1].name = <<"Install ", "Wireshark">>

\* C13: Scenario A.  For the manifest whose only tool is the chocolatey tool
\* "wireshark", building from ["wireshark"] gives three steps: the two fixed
\* steps "Assert Windows/Admin" and "Prepare Desktop category folders", then
\* exactly one tool step, named "Install Wireshark".
C13_ScenarioA ==
    (bres # <<>> /\ manifest = ManifestOf({"wireshark"})
                /\ selection = <<"wireshark">>) =>
        /\ ~bres.raised
        /\ StepNames = <<<<"Assert Windows/Admin">>,
                         <<"Prepare Desktop category folders">>,
                         <<"Install ", "Wireshark">>>>

C13_Witness ==
    /\ bres # <<>>
    /\ manifest = ManifestOf({"wireshark"})
    /\ selection = <<"wireshark">>
    /\ Len(bres.steps) = 3

\* C14: post-install pin steps.  In a list the call returned, the step of a
\* tool whose spec carries post_install pin actions is followed by a pin
\* step for that tool.
C14_PinStepsAppended ==
    (bres # <<>> /\ ~bres.raised) =>
        \A i \in 3..Len(bres.steps) :
            GetToolById(manifest, bres.steps[i].tool).post_install # <<>> =>
                /\ i < Len(bres.steps)
                /\ bres.steps[i + 1].name[1] = "Pin "
                /\ bres.steps[i + 1].tool = bres.steps[i].tool

\* the tool the executed step was built for is a chocolatey or powershell tool
BundleRan ==
    /\ xres # <<>>
    /\ xres.tool # None
    /\ GetToolById(manifest, xres.tool).installer_type \in {"chocolatey", "powershell"}

\* the desktop group asks for a shortcut: it is set and is not "runtimes" in
\* any case
GroupWantsShortcut(g) ==
    g \notin {None, "", "runtimes", "Runtimes", "RUNTIMES"}

\* C15: shortcut creation is bundled and non-fatal.  When the action of a
\* chocolatey or powershell step runs and the primary install returns, the
\* shortcut creation is attempted in the same action exactly when the
\* tool's desktop_group is set and is not "runtimes" (in any case), and the
\* action does not raise whatever the shortcut creation does; the action
\* raises only when the primary install raises, and then no shortcut is
\* attempted.
C15_ShortcutBundledNonFatal ==
    BundleRan =>
        LET g == GetToolById(manifest, xres.tool).desktop_group
        IN  /\ xres.primary # "raise" =>
                  /\ ~xres.raised
                  /\ xres.shortcut # "not attempted" <=> GroupWantsShortcut(g)
            /\ xres.primary = "raise" =>
                  /\ xres.raised
                  /\ xres.shortcut = "not attempted"

\* the shortcut creation raised inside a step whose primary install
\* returned, and the action of the step did not raise
C15_Witness ==
    /\ BundleRan
    /\ xres.primary = "false"
    /\ xres.shortcut \in {"OSError", "AttributeError"}
    /\ ~xres.raised

\* the selected id is absent from the catalog, or is a function tool whose
\* installer id is not registered
Unresolvable(id) ==
    LET tool == GetToolById(manifest, id)
    IN  \/ tool.shape = "None"
        \/ /\ tool.installer_type = "function"
           /\ tool.installer \notin DOMAIN installers

\* the selected id is a function tool whose registered class cannot be
\* constructed from (config, logger, args)
Unconstructible(id) ==
    LET tool == GetToolById(manifest, id)
    IN  /\ tool.shape = "dict"
        /\ tool.installer_type = "function"
        /\ tool.installer \in DOMAIN installers
        /\ installers[tool.installer].extra > 0

\* C16: unresolvable selections are warnings, not crashes.  A call that
\* returns logged exactly one warning per selected id that is absent from
\* the catalog or is a function tool with an unregistered installer id; its
\* steps are those of the other selected ids, in order and the same as when
\* the unresolvable ids are not selected at all; and a call raises only when
\* some selected id is a function tool whose registered class cannot be
\* constructed, never because of an unresolvable id.
C16_UnresolvableAreWarnings ==
    bres # <<>> =>
        LET bad == SelectSeq(selection, Unresolvable)
            good == SelectSeq(selection, LAMBDA id : ~Unresolvable(id))
        IN  /\ bres.raised => \E i \in 1..Len(selection) : Unconstructible(selection[i])
            /\ ~bres.raised =>
                  /\ Len(bres.warnings) = Len(bad)
                  /\ StepTools = good
                  /\ bres.steps = BuildStepsFromSelection(manifest, installers, good).steps

\* an id absent from the catalog and a function tool with an unregistered
\* installer id were selected, and the call returned
C16_Witness ==
    /\ bres # <<>>
    /\ ~bres.raised
    /\ \E i, j \in 1..Len(selection) :
          /\ GetToolById(manifest, selection[i]).shape = "None"
          /\ GetToolById(manifest, selection[j]).shape = "dict"
          /\ Unresolvable(selection[j])
    /\ Len(bres.warnings) = 2

\* the diagnostics of a level that validate logged
DiagsAt(level) == SelectSeq(vres.diags, LAMBDA d : d[1] = level)

\* C18: validation verdict.  When validate returns, its verdict is true
\* exactly when it logged no error; so a category missing 'name' whose items
\* are valid gives true with a warning, and a chocolatey item missing
\* 'package_name' gives false with an error.
C18_VerdictIffNoError ==
    (vres # <<>> /\ ~vres.raised) => (vres.ok <=> DiagsAt("error") = <<>>)

\* C19: validate never raises.  For every parsed manifest, validate returns
\* a verdict.
C19_ValidateNeverRaises ==
    vres # <<>> => ~vres.raised

\* the ids of the items of the manifest, in file order
ItemIds ==
    LET its == AllItems(manifest.elems)
    IN  [i \in 1..Len(its) |-> its[i].id]

\* C20: validation rejects duplicate ids.  In a manifest that validate
\* accepts, no two tool specs carry the same id.
C20_AcceptedIdsUnique ==
    (vres # <<>> /\ ~vres.raised /\ vres.ok) =>
        \A i, j \in 1..Len(ItemIds) : ItemIds[i] = ItemIds[j] => i = j

\* C21: a missing manifest falls back to an empty catalog.  When tools.json
\* is absent, the loaded catalog has zero categories, the default selection
\* is empty, no id is found, the steps built are the two fixed steps and no
\* tool step, and main ends without an exception.
C21_MissingManifestIsEmptyCatalog ==
    (tools_json.shape = "absent" /\ mpc \notin {"none", "start"}) =>
        /\ manifest.shape = "list"
        /\ manifest.elems = <<>>
        /\ selection = <<>>
        /\ \A id \in SelIds : GetToolById(manifest.elems, id).shape = "None"
        /\ bres # <<>> =>
              /\ ~bres.raised
              /\ Len(bres.steps) = 2
              /\ \A i \in 1..Len(bres.steps) : bres.steps[i].tool = None
        /\ mpc # "raised"
        /\ main_ret # "exception"

\* main ran to its end without tools.json, under the entry that validates
C21_Witness ==
    /\ tools_json.shape = "absent"
    /\ entry = "holmes_vm/setup.py"
    /\ vres # <<>>
    /\ bres # <<>>
    /\ mpc = "exited"

\* C27: exit status.  The process ends with status 0 when main ran to its
\* end, however many steps failed, and with a non-zero status, no step built
\* or run, when the configuration is one that validation rejects.
C27_ExitStatus ==
    mpc = "exited" =>
        /\ main_ret = "None" => exit_code = 0
        /\ ~Validate(manifest).raised /\ ~Validate(manifest).ok =>
              /\ exit_code # 0
              /\ bres = <<>>
              /\ xres = <<>>

\* the invocation carries the argument a
HasArg(call, a) == \E k \in 1..Len(call.args) : call.args[k] = a

\* the lines install() logged at one level
LinesAt(level) == SelectSeq(ires.log, LAMBDA l : l[1] = level)

\* the text t is part of the logged line l
Contains(l, t) == \E k \in 1..Len(l[2]) : l[2][k] = t

\* C22: install() never raises.  When the collaborator call itself raises,
\* install() returns false with a logged warning instead of letting the
\* exception reach its caller.
C22_InstallNeverRaises ==
    ires # <<>> =>
        /\ ires.ret # "raise"
        /\ (ires.env.collab = "OSError" /\ ires.calls # <<>>
              /\ instance.kind \in {"chocolatey", "powershell"}) =>
              /\ ires.ret = "False"
              /\ LinesAt("WARN") # <<>>

\* C23: Chocolatey exit-code mapping without retry.  The package manager is
\* invoked exactly once; exit code 0 gives true and a SUCCESS line; a non-zero
\* exit code gives false and exactly one WARN line that holds the stderr text.
C23_ChocoExitCodeMapping ==
    (ires # <<>> /\ instance.kind = "chocolatey") =>
        /\ Len(ires.calls) = 1
        /\ ires.calls[1].cmd = "Install-ChocoPackage"
        /\ ires.env.collab = "exit0" =>
              /\ ires.ret = "True"
              /\ Len(LinesAt("SUCCESS")) = 1
              /\ LinesAt("WARN") = <<>>
        /\ ires.env.collab = "exit1" =>
              /\ ires.ret = "False"
              /\ Len(LinesAt("WARN")) = 1
              /\ Contains(LinesAt("WARN")[1], "network error")
              /\ LinesAt("SUCCESS") = <<>>

\* a Chocolatey install whose package manager exited with a non-zero code
C23_Witness ==
    /\ ires # <<>>
    /\ instance.kind = "chocolatey"
    /\ ires.env.collab = "exit1"
    /\ ires.ret = "False"

\* C24: Chocolatey argument exclusivity.  The explicit install arguments and
\* the suppress flag never both appear in the invocation; when both are
\* configured the explicit arguments are passed; when neither is configured
\* neither appears.
C24_ArgumentExclusivity ==
    (ires # <<>> /\ instance.kind = "chocolatey") =>
        LET explicit == HasArg(ires.calls[1], "-InstallArguments")
            suppress == HasArg(ires.calls[1], "-SuppressDefaultInstallArgs")
        IN  /\ ~(explicit /\ suppress)
            /\ (Truthy(instance.install_args) /\ Truthy(instance.suppress_default_args)) =>
                  /\ explicit
                  /\ HasArg(ires.calls[1], instance.install_args)
            /\ (~Truthy(instance.install_args) /\ ~Truthy(instance.suppress_default_args)) =>
                  ~explicit /\ ~suppress

\* an installer configured with both options has run
C24_Witness ==
    /\ ires # <<>>
    /\ instance.kind = "chocolatey"
    /\ Truthy(instance.install_args)
    /\ Truthy(instance.suppress_default_args)
    /\ HasArg(ires.calls[1], "-InstallArguments")
    /\ ires.ret = "True"

\* C25: the PowerShell installer fails fast on a missing script.  It logs at
\* ERROR level, not WARN, returns false and does not invoke the script.
C25_MissingScriptFailsFast ==
    (ires # <<>> /\ instance.kind = "powershell" /\ ~ires.env.script_exists) =>
        /\ ires.ret = "False"
        /\ ires.calls = <<>>
        /\ Len(LinesAt("ERROR")) = 1
        /\ Contains(LinesAt("ERROR")[1], instance.script_path)
        /\ LinesAt("WARN") = <<>>

\* a PowerShell installer has run without its script file
C25_Witness ==
    /\ ires # <<>>
    /\ instance.kind = "powershell"
    /\ ~ires.env.script_exists
    /\ ires.ret = "False"

\* an external action that changes the system and was not told of the dry run
Mutating(call) == call.cmd # "urlopen" /\ ~HasArg(call, "-WhatIf")

\* C26: dry-run reaches every installer.  In a what-if run every installer
\* either passes the dry-run flag to its collaborator or performs no mutating
\* external action.
C26_DryRunReachesEveryInstaller ==
    (ires # <<>> /\ instance.what_if) =>
        \A k \in 1..Len(ires.calls) : ~Mutating(ires.calls[k])

\* C30: manifest install options reach the invocation.  The step built for a
\* selected chocolatey tool whose spec carries install_args, or
\* suppress_default_args, invokes the package manager with those arguments,
\* or with the suppress flag.
C30_InstallOptionsReachInvocation ==
    (ires # <<>> /\ instance.kind = "chocolatey" /\ selection # <<>>
       /\ ires.ret # "raise") =>
        LET tool == GetToolById(manifest, selection[1])
        IN  /\ Truthy(tool.install_args) =>
                  /\ HasArg(ires.calls[1], "-InstallArguments")
                  /\ HasArg(ires.calls[1], tool.install_args)
            /\ (Truthy(tool.suppress_default_args) /\ ~Truthy(tool.install_args)) =>
                  HasArg(ires.calls[1], "-SuppressDefaultInstallArgs")

\* C28: cross-thread mutation is confined.  A step of the run thread changes
\* no state the UI owns: what it reports, the ETA included, goes through the
\* event queue.
C28_CrossThreadConfined ==
    [][(\E t \in Threads : Runner(t)) =>
          /\ last_eta' = last_eta
          /\ dlg' = dlg
          /\ stop_btn' = stop_btn]_vars

\* C29: the event queue is FIFO and non-blocking.  The events the UI thread
\* has handled, followed by those still queued, are the events enqueued, in
\* the order of enqueueing: none lost, none handled twice, across polling
\* rounds; and the run thread can always enqueue, whatever the UI has drained.
C29_QueueFifoNonBlocking ==
    /\ handled \o queue = emitted
    /\ Len(emitted) < MaxEvents => ENABLED (\E e \in Events : Enqueue(e))

\* two different events were handled while a third waits in the queue
C29_Witness ==
    /\ Len(handled) = 2
    /\ handled[1] # handled[2]
    /\ Len(queue) = 1
    /\ ~polling

\* C31: desktop-group preparation precedes all installs.  Every list the
\* step builder returns, for the empty selection too, holds the step
\* "Prepare Desktop category folders" at a position before every tool step.
C31_PrepareBeforeInstalls ==
    (bres # <<>> /\ ~bres.raised) =>
        \E p \in 1..Len(bres.steps) :
            /\ bres.steps[p].name = <<"Prepare Desktop category folders">>
            /\ bres.steps[p].tool = None
            /\ \A i \in 1..Len(bres.steps) : bres.steps[i].tool # None => p < i

\* a list with two tool steps was returned
C31_Witness ==
    /\ bres # <<>>
    /\ ~bres.raised
    /\ Len(bres.steps) = 4
    /\ bres.steps[3].tool # None
    /\ bres.steps[4].tool # None

\* C35: step building never raises.  For a manifest validate() accepts and
\* any selection, build_steps_from_selection returns a step list; a function
\* tool naming a registered installer id becomes a step or a warning.
C35_BuildNeverRaises ==
    (bres # <<>> /\ Validate(JsonList(manifest)).ok) => ~bres.raised

\* C37: GUI preselection agrees with the catalog defaults.  The ids the
\* selection dialog shows checked, when shown without preselected ids, are
\* the ids get_default_tool_ids() returns for the same manifest.
C37_PreselectionIsDefaults ==
    preselected.shape = "list" => preselected.ids = DefaultToolIds(manifest.elems)

\* the lines that report how a step ended, as <<level, context>>
OutcomeLines ==
    LET ls == SelectSeq(log, LAMBDA l : l.msg \in {"completed", "failed"})
    IN  [k \in 1..Len(ls) |-> <<ls[k].level, ls[k].ctx>>]

\* C32: the console runner is the runner minus progress events.  Called
\* without a UI and with no cancellation, run_steps and run_steps_console do
\* the same with every step list: each calls the actions once each, in list
\* order, logs for each step one SUCCESS line when its action returned and
\* one ERROR line when it raised, puts no event, and ends with the logger
\* context cleared.
C32_ConsoleIsRunnerMinusEvents ==
    (mode \in {"console", "direct"} /\ ~cancel) =>
        LET n == Len(OutcomeLines)
        IN  /\ n <= Len(steps)
            /\ \A k \in 1..n :
                  /\ invoked[k] = 1
                  /\ OutcomeLines[k] =
                        <<IF outcome[k] = "raise" THEN "ERROR" ELSE "SUCCESS", Ctx(steps[k])>>
            /\ \A k \in 1..Len(steps) :
                  /\ invoked[k] <= 1
                  /\ k > n + 1 => invoked[k] = 0
            /\ emitted = <<>>
            /\ pc[1] = "done" =>
                  /\ n = Len(steps)
                  /\ current_step = None

\* run_steps_console ended after a step that raised and one that returned
C32_Witness ==
    /\ mode = "console"
    /\ pc[1] = "done"
    /\ Len(steps) >= 2
    /\ outcome[1] = "raise"
    /\ outcome[2] = "ok"
    /\ Len(OutcomeLines) = Len(steps)

\* the enable_close events the run thread has put
CloseEvents == SelectSeq(emitted, LAMBDA e : e.kind = "enable_close")

TickToward ==
    (AnimateStep /\ progress # anim_target) =>
        /\ progress < anim_target => (progress < progress' /\ progress' <= anim_target)
        /\ progress > anim_target => (progress > progress' /\ progress' >= anim_target)

\* C38: the progress animation converges without overshoot.  The displayed
\* value stays in [0,100], as does the target; at most one animation timer
\* is pending; every tick moves the value strictly toward the target and
\* never past it; and when targets stop arriving the value ends up equal to
\* the last target with no timer pending.
C38_AnimationConverges ==
    /\ [](progress \in 0..100 /\ anim_target \in 0..100 /\ anim_job.pending <= 1)
    /\ [][TickToward]_vars
    /\ <>[](progress = anim_target /\ anim_job.pending = 0 /\ anim_job.id = None)

\* the value is moving down toward a second target, one timer pending
C38_Witness ==
    /\ Len(handled) = 2
    /\ progress > anim_target
    /\ progress < 100
    /\ progress > 0
    /\ anim_job.pending = 1

\* the score of the k-th group for the entry of the call
ScoreOf(k) == Score(pick.groups[k].tokens, LowerText(pick.name))

\* C33: token-overlap group choice.  Each group scores the sum of the
\* lengths of its tokens that occur in the lower-cased name; no group is
\* returned when no score reaches 4, a group without tokens scoring nothing;
\* otherwise the group returned has the highest score and is the first group
\* of the list with that score.
C33_TokenOverlapChoice ==
    pick.out # "unset" =>
        LET idxs == 1..Len(pick.groups)
        IN  IF \A k \in idxs : ScoreOf(k) < 4
            THEN pick.out = None
            ELSE \E k \in idxs :
                    /\ pick.out = pick.groups[k].group
                    /\ ScoreOf(k) >= 4
                    /\ \A j \in idxs : ScoreOf(j) <= ScoreOf(k)
                    /\ \A j \in 1..(k - 1) : ScoreOf(j) < ScoreOf(k)

\* two groups score the same, at least 4, for a name with an upper-case
\* letter, and the first was returned
C33_Witness ==
    /\ pick.out = "Network"
    /\ Len(pick.groups) = 2
    /\ ScoreOf(1) = ScoreOf(2)
    /\ ScoreOf(1) >= 4
    /\ pick.name # LowerText(pick.name)

\* the entry is the folder of a group of the catalog
IsGroupFolder(e) ==
    e.is_dir /\ e.parent = "Desktop" /\ Protected(e, desk.groups)

\* C34: one organize_desktop pass moves no folder of a known group, moves
\* only entries that lie directly on the desktop, and leaves every entry
\* whose best score is below the threshold where it was.
C34_GroupFoldersLeftAlone ==
    desk # <<>> /\ desk.done =>
        /\ \A e \in desk.moved :
              /\ ~IsGroupFolder(e)
              /\ e.parent = "Desktop"
              /\ PickGroupForEntry(Text(e.name), desk.groups) # None
        /\ \A e \in desk.before :
              (e.parent # "Desktop" \/ PickGroupForEntry(Text(e.name), desk.groups) = None)
                  => e \in desk.entries

\* the same for catalogs in which no group is named like a shortcut
C34_HoldsForPlainGroupNames ==
    (desk # <<>> /\ "abab.lnk" \notin GroupsOf(desk.groups)) => C34_GroupFoldersLeftAlone

====
